---------------------------- MODULE Spec2Model ----------------------------
(***************************************************************************)
(* GreenScore analytics core: the classification join of data_loader.py,  *)
(* the scoring, ranking, tier and benefit functions of analysis.py and the *)
(* trend tables of plotting.py.                                            *)
(*                                                                         *)
(* A DataFrame is a record [columns, rows, duplicated]: the set of column  *)
(* names, the sequence of rows, each row a function from the column names  *)
(* to the cell values, and the names that label more than one column (the  *)
(* cell under such a name is the sequence of the cells that share it).  A  *)
(* missing cell (pandas NaN / Python None) is the value None.              *)
(*  Floating-point results are exact rationals [num, den] in lowest  *)
(* terms; the float NaN is the rational with den = 0, and every ordered    *)
(* comparison with it is false, as in IEEE 754.  A date is a timestamp     *)
(* [day, hour]: the days since 1970-01-01 and the hour of the day.         *)
(***************************************************************************)
EXTENDS Integers, Sequences, FiniteSets, TLC

VARIABLES
    transactions_df,    \* the transactions table handed to merge_transaction_with_mcc
    mcc_df,             \* the category reference table as loaded
    mcc_df_renamed,     \* the reference table handed to merge_transaction_with_mcc
    df,                 \* the classified dataset handed to the analysis functions
    op,                 \* the function called last ("init" before any call)
    args,               \* the positional arguments of that call after the dataset
    ret,                \* what the call returned or raised
    user_scores         \* the sorted score table of the last get_client_ranking call

vars == <<transactions_df, mcc_df, mcc_df_renamed, df, op, args, ret, user_scores>>

-----------------------------------------------------------------------------
(* Python values and call outcomes *)

None == "None"
PyTrue == "True"
PyFalse == "False"

Ok(v) == [kind |-> "ok", value |-> v]
Raise(e) == [kind |-> "raise", value |-> e]
NoCall == [kind |-> "none", value |-> None]

-----------------------------------------------------------------------------
(* pandas DataFrame operations used by data_loader.py *)

DataFrame(cols, rows) == [columns |-> cols, rows |-> rows, duplicated |-> {}]

\* df.rename(columns={old: new}): a new frame, the column renamed in place; a
\* frame that already has a column new then has two columns with that label
rename(t, old, new) ==
    LET cols == (t.columns \ {old}) \cup {new}
        clash == new \in t.columns
    IN  [columns |-> cols,
         rows |-> [i \in DOMAIN t.rows |->
                     [c \in cols |->
                         IF c # new THEN t.rows[i][c]
                         ELSE IF clash THEN <<t.rows[i][new], t.rows[i][old]>>
                         ELSE t.rows[i][old]]],
         duplicated |-> IF clash THEN t.duplicated \cup {new} ELSE t.duplicated]

\* Series.map({True: 'green', False: 'not green'}): a value that is no key maps to NaN
map_is_green(v) ==
    IF v = PyTrue THEN "green" ELSE IF v = PyFalse THEN "not green" ELSE None

\* Series.fillna(value)
fillna(v, value) == IF v = None THEN value ELSE v

\* df[col] = values: assigns (or adds) a column, values[i] the cell of row i
assign(t, col, values) ==
    LET cols == t.columns \cup {col}
    IN  [columns |-> cols,
         rows |-> [i \in DOMAIN t.rows |->
                     [c \in cols |-> IF c = col THEN values[i] ELSE t.rows[i][c]]],
         duplicated |-> t.duplicated]

\* df[col].map(...) / .fillna(...) / a scalar: the new cells, row by row
mapped_status(t) == [i \in DOMAIN t.rows |-> map_is_green(t.rows[i]["status"])]
filled_status(t) == [i \in DOMAIN t.rows |-> fillna(t.rows[i]["status"], "not green")]
constant(t, v) == [i \in DOMAIN t.rows |-> v]

\* df[[c1, c2]]: the frame restricted to the listed columns
select(t, cols) ==
    [columns |-> cols,
     rows |-> [i \in DOMAIN t.rows |-> [c \in cols |-> t.rows[i][c]]],
     duplicated |-> t.duplicated \cap cols]

(* The local name mcc_df inside merge_transaction_with_mcc is a reference:  *)
(* it starts as the caller's object and is rebound by rename() and copy(),  *)
(* which return new objects.  A frame state keeps the caller's table, the   *)
(* table the local name refers to, and whether the two are one object.      *)
Frame(caller, local, shared) == [caller |-> caller, local |-> local, shared |-> shared]

\* mcc_df = mcc_df.rename(columns={old: new})
frame_rename(s, old, new) == Frame(s.caller, rename(s.local, old, new), FALSE)

\* mcc_df = mcc_df.copy(), missing: the local name keeps referring to the same object
frame_copy_missing(s) == s

\* mcc_df = mcc_df.copy()
frame_copy(s) == Frame(s.caller, s.local, FALSE)

\* mcc_df[col] = values: writes through the reference
frame_assign(s, col, values) ==
    LET t == assign(s.local, col, values)
    IN  Frame(IF s.shared THEN t ELSE s.caller, t, s.shared)

-----------------------------------------------------------------------------
(* pd.merge(left, right, left_on=, right_on=, how='left') *)

\* the right rows whose key equals k, in the order of the right table
RECURSIVE matches(_, _, _, _)
matches(right, right_on, k, j) ==
    IF j > Len(right.rows) THEN <<>>
    ELSE (IF right.rows[j][right_on] = k THEN <<right.rows[j]>> ELSE <<>>)
         \o matches(right, right_on, k, j + 1)

\* an inner join: a left row without a match yields no row
joined_rows_inner(lrow, right, m) ==
    [j \in DOMAIN m |-> lrow @@ m[j]]

\* the result rows of one left row: one per matching right row, or one padded with NaN
joined_rows(lrow, right, m) ==
    IF m = <<>> THEN <<lrow @@ [c \in right.columns |-> None]>>
    ELSE [j \in DOMAIN m |-> lrow @@ m[j]]

RECURSIVE merge_rows(_, _, _, _, _)
merge_rows(left, right, left_on, right_on, i) ==
    IF i > Len(left.rows) THEN <<>>
    ELSE joined_rows(left.rows[i], right,
                     matches(right, right_on, left.rows[i][left_on], 1))
         \o merge_rows(left, right, left_on, right_on, i + 1)

\* left order is kept; the column sets of the two sides are disjoint here and
\* the key labels are unique
pd_merge_left(left, right, left_on, right_on) ==
    DataFrame(left.columns \cup right.columns,
              merge_rows(left, right, left_on, right_on, 1))

-----------------------------------------------------------------------------
(* data_loader.merge_transaction_with_mcc *)

\* the early return without the test: every table goes through the join
has_status_never(t) == FALSE

\* 'status' in transactions_df.columns
has_status(t) == "status" \in t.columns

\* the aliases tried in another order: color before is_green
resolve_status_color_first(s) ==
    IF "status" \in s.local.columns THEN s
    ELSE IF "green_status" \in s.local.columns
         THEN frame_rename(s, "green_status", "status")
    ELSE IF "color" \in s.local.columns
         THEN frame_rename(s, "color", "status")
    ELSE IF "is_green" \in s.local.columns
         THEN LET r == frame_rename(s, "is_green", "status")
              IN  frame_assign(r, "status", mapped_status(r.local))
    ELSE frame_assign(frame_copy(s), "status", constant(s.local, "not green"))

\* lines 57-70: the reference table's status column under its aliases
resolve_status(s) ==
    IF "status" \in s.local.columns THEN s
    ELSE IF "green_status" \in s.local.columns
         THEN frame_rename(s, "green_status", "status")
    ELSE IF "is_green" \in s.local.columns
         THEN LET r == frame_rename(s, "is_green", "status")
              IN  frame_assign(r, "status", mapped_status(r.local))
    ELSE IF "color" \in s.local.columns
         THEN frame_rename(s, "color", "status")
    ELSE frame_assign(frame_copy(s), "status", constant(s.local, "not green"))

\* lines 73-79 without the mcc alias
code_column_no_mcc(t) ==
    IF "mcc_code" \in t.columns THEN "mcc_code"
    ELSE IF "mcc_cd" \in t.columns THEN "mcc_cd"
    ELSE None

\* lines 73-79: the column that becomes mcc_code, None when there is none
code_column(t) ==
    IF "mcc_code" \in t.columns THEN "mcc_code"
    ELSE IF "mcc" \in t.columns THEN "mcc"
    ELSE IF "mcc_cd" \in t.columns THEN "mcc_cd"
    ELSE None

\* lines 73-79: the rename, or the frame as it is when mcc_code is present
resolve_code(s) ==
    IF code_column(s.local) = "mcc_code" THEN s
    ELSE frame_rename(s, code_column(s.local), "mcc_code")

\* the cell texts that read_csv parses as integers: digits only
IntegerTexts == {"5411", "5541"}

\* the dtype read_csv gives a column: int64 when every cell parses as an
\* integer, object (the cells stay strings) when one does not or the table
\* has no rows
key_dtype(t, col) ==
    IF t.rows # <<>> /\ \A i \in DOMAIN t.rows : t.rows[i][col] \in IntegerTexts
    THEN "int64" ELSE "object"

\* pd.merge refuses an int64 key against a key of strings; it does not look
\* at the dtypes when one of the two tables has no rows
incompatible_keys(t, m) ==
    /\ t.rows # <<>>
    /\ m.rows # <<>>
    /\ key_dtype(t, "mcc") # key_dtype(m, "mcc_code")

\* lines 82-93: the join and the fill of the missing statuses. pd.merge looks
\* up the right key first: a label that is not unique raises ValueError, then
\* a left key that is no column raises KeyError, then keys of an integer and
\* a string dtype raise ValueError.
merge_and_fill(t, m) ==
    IF "mcc_code" \in m.duplicated THEN Raise("ValueError")
    ELSE IF "mcc" \notin t.columns THEN Raise("KeyError")
    ELSE IF incompatible_keys(t, m) THEN Raise("ValueError")
    ELSE LET merged_df == pd_merge_left(t, select(m, {"mcc_code", "status"}),
                                        "mcc", "mcc_code")
         IN  Ok(assign(merged_df, "status", filled_status(merged_df)))

\* the call: what it returns or raises, and the caller's reference table afterwards
merge_transaction_with_mcc(t, m) ==
    IF has_status(t) THEN [ret |-> Ok(t), mcc_df |-> m]
    ELSE LET s1 == resolve_status(Frame(m, m, TRUE))
         IN  IF code_column(s1.local) = None
             THEN [ret |-> Raise("ValueError"), mcc_df |-> s1.caller]
             ELSE LET s2 == resolve_code(s1)
                  IN  [ret |-> merge_and_fill(t, s2.local), mcc_df |-> s2.caller]

\* app.py:85: mcc_df.rename(columns={'mcc': 'mcc_code'}) when mcc is a column,
\* mcc_df.rename(columns={}) otherwise; a new frame either way
rename_reference(m) ==
    IF "mcc" \in m.columns THEN rename(m, "mcc", "mcc_code") ELSE m

-----------------------------------------------------------------------------
(* Floating-point values as exact rationals; NaN has den = 0 *)

NaN == [num |-> 0, den |-> 0]
IsNaN(a) == a.den = 0

Abs(n) == IF n < 0 THEN -n ELSE n

RECURSIVE GCD(_, _)
GCD(a, b) == IF b = 0 THEN a ELSE GCD(b, a % b)

\* the rational n/d in lowest terms with a positive denominator
Rat(n, d) ==
    IF d = 0 THEN NaN
    ELSE LET g == GCD(Abs(n), Abs(d))
             sgn == IF d < 0 THEN -1 ELSE 1
         IN  [num |-> sgn * (n \div g), den |-> sgn * (d \div g)]

FromInt(n) == [num |-> n, den |-> 1]

Add(a, b) ==
    IF IsNaN(a) \/ IsNaN(b) THEN NaN
    ELSE Rat(a.num * b.den + b.num * a.den, a.den * b.den)

Mul(a, b) ==
    IF IsNaN(a) \/ IsNaN(b) THEN NaN ELSE Rat(a.num * b.num, a.den * b.den)

\* a / b for a divisor that is not zero
Div(a, b) ==
    IF IsNaN(a) \/ IsNaN(b) THEN NaN ELSE Rat(a.num * b.den, a.den * b.num)

\* ordered comparisons: false as soon as one side is NaN
Lt(a, b) == ~IsNaN(a) /\ ~IsNaN(b) /\ a.num * b.den < b.num * a.den
Ge(a, b) == ~IsNaN(a) /\ ~IsNaN(b) /\ a.num * b.den >= b.num * a.den
Gt(a, b) == Lt(b, a)

-----------------------------------------------------------------------------
(* analysis.py: the fleet-wide scoring functions *)

ActiveThreshold == 20       \* analysis.py:44
TargetDefault == 20         \* analysis.py:69

\* the ascending sequence of a finite set of integers
RECURSIVE SortedSeq(_)
SortedSeq(S) ==
    IF S = {} THEN <<>>
    ELSE LET m == CHOOSE x \in S : \A y \in S : x <= y
         IN  <<m>> \o SortedSeq(S \ {m})

RECURSIVE SumSeq(_)
SumSeq(q) == IF q = <<>> THEN FromInt(0) ELSE Add(Head(q), SumSeq(Tail(q)))

\* the rows of one group of df.groupby('user_id'), in row order
group_rows(d, u) == SelectSeq(d.rows, LAMBDA r : r["user_id"] = u)

\* (x == 'green').sum()
green_count(x) == Len(SelectSeq(x, LAMBDA r : r["status"] = "green"))

\* the share of green rows among the rows whose status is known
green_percentage_of_known(x) ==
    LET known == SelectSeq(x, LAMBDA r : r["status"] # None)
    IN  IF Len(known) = 0 THEN FromInt(0)
        ELSE Mul(Div(FromInt(green_count(known)), FromInt(Len(known))), FromInt(100))

\* lambda x: (x == 'green').sum() / len(x) * 100
green_percentage(x) ==
    Mul(Div(FromInt(green_count(x)), FromInt(Len(x))), FromInt(100))

\* df.groupby('user_id')['status'].apply(...).reset_index(): one row per user, ascending
user_stats(d) ==
    LET users == SortedSeq({d.rows[i]["user_id"] : i \in DOMAIN d.rows})
    IN  [k \in DOMAIN users |->
            [user_id |-> users[k],
             green_percentage |-> green_percentage(group_rows(d, users[k]))]]

\* a mean that coerces the empty case to 0
mean_zero_on_empty(q) ==
    IF q = <<>> THEN FromInt(0) ELSE Div(SumSeq(q), FromInt(Len(q)))

\* Series.mean(): NaN for an empty series
mean(q) ==
    IF q = <<>> THEN NaN ELSE Div(SumSeq(q), FromInt(Len(q)))

\* the share of green rows in the whole dataset
calculate_average_greenscore_by_rows(d) ==
    IF d.rows = <<>> THEN NaN ELSE green_percentage(d.rows)

calculate_average_greenscore(d) ==
    LET stats == user_stats(d)
    IN  mean([k \in DOMAIN stats |-> stats[k].green_percentage])

\* an exclusive comparison
is_active_strict(r) == Gt(r.green_percentage, FromInt(ActiveThreshold))

\* user_stats['green_percentage'] >= 20
is_active(r) == Ge(r.green_percentage, FromInt(ActiveThreshold))

\* (len(active_users) / len(user_stats)) * 100 if len(user_stats) > 0 else 0
active_ratio(n_active, n_users) ==
    IF n_users > 0
    THEN Mul(Div(FromInt(n_active), FromInt(n_users)), FromInt(100))
    ELSE FromInt(0)

calculate_active_clients_ratio(d) ==
    LET stats == user_stats(d)
        active_users == SelectSeq(stats, is_active)
    IN  active_ratio(Len(active_users), Len(stats))

\* the filter left out: every amount is summed
is_green_row_any(r) == TRUE

\* df['status'] == 'green'
is_green_row(r) == r["status"] = "green"

calculate_total_eco_points(d) ==
    LET green_transactions == SelectSeq(d.rows, is_green_row)
    IN  SumSeq([i \in DOMAIN green_transactions |->
                    FromInt(green_transactions[i]["amount"])])

\* min with its arguments swapped: min(100, x)
py_min_swapped(a, b) == IF Lt(a, b) THEN a ELSE b

\* Python's min(a, b): b when b < a, else a
py_min(a, b) == IF Lt(b, a) THEN b ELSE a

calculate_target_progress(current_greenscore, target_greenscore) ==
    py_min(Mul(Div(current_greenscore, target_greenscore), FromInt(100)),
           FromInt(100))

\* a call f(df, *extra) of a function that takes the dataset alone
call_with_dataset_only(extra, result) ==
    IF extra = <<>> THEN Ok(result) ELSE Raise("TypeError")

-----------------------------------------------------------------------------
(* Timestamps of the 'date' column: whole days since 1970-01-01 and the hour *)

Timestamp(d, h) == [day |-> d, hour |-> h]

\* t1 <= t2 on timestamps
ts_le(t1, t2) == t1.day < t2.day \/ (t1.day = t2.day /\ t1.hour <= t2.hour)

\* Series.min() and Series.max() of a non-empty sequence of timestamps
ts_min(q) == q[CHOOSE i \in DOMAIN q : \A j \in DOMAIN q : ts_le(q[i], q[j])]
ts_max(q) == q[CHOOSE i \in DOMAIN q : \A j \in DOMAIN q : ts_le(q[j], q[i])]

\* pd.Timestamp(date): midnight of the day
pd_Timestamp(day) == Timestamp(day, 0)

\* data_loader.filter_data_by_date: the rows dated from start_date to end_date,
\* both included; the frame itself when it has no date column
filter_data_by_date(d, start_date, end_date) ==
    IF "date" \in d.columns
    THEN [d EXCEPT !.rows = SelectSeq(d.rows,
              LAMBDA r : ts_le(start_date, r["date"]) /\ ts_le(r["date"], end_date))]
    ELSE d

\* year, month and day of the calendar date that is z days after 1970-01-01
civil(z) ==
    LET zz == z + 719468
        era == zz \div 146097
        doe == zz - era * 146097
        yoe == (doe - doe \div 1460 + doe \div 36524 - doe \div 146096) \div 365
        doy == doe - (365 * yoe + yoe \div 4 - yoe \div 100)
        mp == (5 * doy + 2) \div 153
        d == doy - (153 * mp + 2) \div 5 + 1
        m == IF mp < 10 THEN mp + 3 ELSE mp - 9
    IN  [year |-> yoe + era * 400 + (IF m <= 2 THEN 1 ELSE 0), month |-> m, day |-> d]

\* a two-digit field of strftime
two_digits(n) == IF n < 10 THEN "0" \o ToString(n) ELSE ToString(n)

\* Timestamp.strftime('%Y-%m-%d'), for years of four digits
strftime(t) ==
    LET c == civil(t.day)
    IN  ToString(c.year) \o "-" \o two_digits(c.month) \o "-" \o two_digits(c.day)

-----------------------------------------------------------------------------
(* analysis.py: the per-client functions *)

\* df[df['user_id'] == user_id]
user_transactions(d, user_id) == SelectSeq(d.rows, LAMBDA r : r["user_id"] = user_id)

get_client_greenscore(d, user_id) ==
    LET ut == user_transactions(d, user_id)
    IN  IF Len(ut) = 0 THEN FromInt(0)
        ELSE Mul(Div(FromInt(green_count(ut)), FromInt(Len(ut))), FromInt(100))

\* a table in ascending order of green_percentage
is_sorted_ascending(q) ==
    \A i, j \in DOMAIN q :
        i < j => ~Lt(q[j].green_percentage, q[i].green_percentage)

\* a table in descending order of green_percentage
is_sorted_descending(q) ==
    \A i, j \in DOMAIN q :
        i < j => ~Lt(q[i].green_percentage, q[j].green_percentage)

\* sort_values(by=..., ascending=False).reset_index(drop=True) with the default
\* kind 'quicksort': the rows in descending order, rows with equal keys in an
\* order pandas does not promise. The set of the tables it may return.
sort_values(q) ==
    {s \in {[k \in DOMAIN q |-> q[p[k]]] : p \in Permutations(DOMAIN q)} :
        is_sorted_descending(s)}

\* the rank of a user that is not in the table, one too small
rank_not_found_last(sorted_scores) == Len(sorted_scores)

\* except IndexError: return len(user_scores) + 1
rank_not_found(sorted_scores) == Len(sorted_scores) + 1

\* user_scores[user_scores['user_id'] == user_id].index[0] + 1, on the sorted table
user_rank(sorted_scores, user_id) ==
    LET found == {k \in DOMAIN sorted_scores : sorted_scores[k].user_id = user_id}
    IN  IF found = {} THEN rank_not_found(sorted_scores)
        ELSE CHOOSE k \in found : \A l \in found : k <= l

\* the ranks get_client_ranking may return, one for each outcome of the sort,
\* each with the sorted table it was read from; a rank is a number like the
\* other results, so a rational
get_client_ranking(d, user_id) ==
    {[user_scores |-> s, rank |-> FromInt(user_rank(s, user_id))] :
        s \in sort_values(user_stats(d))}

\* the filter on the status left out: every amount of the client
get_client_eco_points_any_status(d, user_id) ==
    LET ut == SelectSeq(d.rows, LAMBDA r : r["user_id"] = user_id)
    IN  SumSeq([i \in DOMAIN ut |-> FromInt(ut[i]["amount"])])

get_client_eco_points(d, user_id) ==
    LET ut == SelectSeq(d.rows,
                        LAMBDA r : r["user_id"] = user_id /\ r["status"] = "green")
    IN  SumSeq([i \in DOMAIN ut |-> FromInt(ut[i]["amount"])])

get_client_activity_period(d, user_id) ==
    LET ut == user_transactions(d, user_id)
        dates == [i \in DOMAIN ut |-> ut[i]["date"]]
    IN  IF Len(ut) = 0 THEN <<"N/A", "N/A">>
        ELSE <<strftime(ts_min(dates)), strftime(ts_max(dates))>>

\* the first n rows of a table, none for n <= 0
first_rows(q, n) == SubSeq(q, 1, IF n < Len(q) THEN n ELSE Len(q))

\* DataFrame.nlargest(n, 'green_percentage') with keep='first': descending,
\* rows with equal values in their order in the table
nlargest(q, n) ==
    LET before(i, j) == \/ Lt(q[j].green_percentage, q[i].green_percentage)
                        \/ (q[i].green_percentage = q[j].green_percentage /\ i < j)
        position(i) == 1 + Cardinality({j \in DOMAIN q : before(j, i)})
        sorted == [k \in DOMAIN q |-> q[CHOOSE i \in DOMAIN q : position(i) = k]]
    IN  first_rows(sorted, n)

\* sorted(df['user_id'].unique().astype(int).tolist()); the ids are integers,
\* which astype(int) keeps as they are
get_unique_users(d) ==
    SortedSeq({d.rows[i]["user_id"] : i \in DOMAIN d.rows})

\* analysis.get_top_green_users: the user ids of the n largest rows. Over a
\* dataset without rows the groupby-apply returns an empty column of the dtype
\* of 'status' (object), which nlargest rejects before it looks at n.
get_top_green_users(d, n) ==
    IF d.rows = <<>> THEN Raise("TypeError")
    ELSE LET top == nlargest(user_stats(d), n)
         IN  Ok([k \in DOMAIN top |-> top[k].user_id])

-----------------------------------------------------------------------------
(* analysis.py: tiers and benefits. The labels and the reward names stand for
   the Russian strings of the source, one name for each distinct string. *)

EcoLeader == "Eco-Leader"                     \* analysis.py:183, 206
ActiveParticipant == "Active Participant"     \* analysis.py:185, 220
DevelopingHabits == "Developing Habits"       \* analysis.py:187, 231
Newcomer == "Newcomer"                        \* analysis.py:189, 239

\* the same chain with exclusive boundaries
get_client_status_exclusive(green_score, is_top_user) ==
    IF is_top_user \/ Gt(green_score, FromInt(25)) THEN EcoLeader
    ELSE IF Gt(green_score, FromInt(15)) THEN ActiveParticipant
    ELSE IF Gt(green_score, FromInt(5)) THEN DevelopingHabits
    ELSE Newcomer

get_client_status(green_score, is_top_user) ==
    IF is_top_user \/ Ge(green_score, FromInt(25)) THEN EcoLeader
    ELSE IF Ge(green_score, FromInt(15)) THEN ActiveParticipant
    ELSE IF Ge(green_score, FromInt(5)) THEN DevelopingHabits
    ELSE Newcomer

Benefit(name, cost) == [name |-> name, cost |-> cost]

\* the 'available' list of each branch of get_user_benefits
EcoLeaderCatalog ==
    << Benefit("green car loan -0.3%", 10000),
       Benefit("personal ESG consultant", 50000),
       Benefit("closed eco-projects", 100000),
       Benefit("green deposit +0.3%", 5000),
       Benefit("EV test drive certificate", 2000),
       Benefit("free Green Card service", 0),
       Benefit("month of bike rental", 1000),
       Benefit("personal ESG report", 0),
       Benefit("green shopping tips", 0),
       Benefit("GreenScore rating access", 0) >>

ActiveParticipantCatalog ==
    << Benefit("green deposit +0.3%", 5000),
       Benefit("EV test drive certificate", 2000),
       Benefit("free Green Card service", 0),
       Benefit("month of bike rental", 1000),
       Benefit("personal ESG report", 0),
       Benefit("green shopping tips", 0),
       Benefit("GreenScore rating access", 0) >>

\* the list with the bike rental at another cost than in the higher tiers
DevelopingHabitsCatalogRepriced ==
    << Benefit("month of bike rental", 500),
       Benefit("personal ESG report", 0),
       Benefit("green shopping tips", 0),
       Benefit("GreenScore rating access", 0) >>

DevelopingHabitsCatalog ==
    << Benefit("month of bike rental", 1000),
       Benefit("personal ESG report", 0),
       Benefit("green shopping tips", 0),
       Benefit("GreenScore rating access", 0) >>

NewcomerCatalog ==
    << Benefit("green shopping tips", 0),
       Benefit("GreenScore rating access", 0) >>

\* a locked entry: the text "<name> (<cost - eco_points> more points needed)"
Locked(name, need) == [name |-> name, need |-> need]

\* the tier chain with strict comparisons: a score on a threshold falls into
\* the tier below
get_user_benefits_strict(green_score, eco_points, is_top_user) ==
    LET branch ==
            IF is_top_user \/ Gt(green_score, FromInt(25))
            THEN [status |-> EcoLeader, available |-> EcoLeaderCatalog]
            ELSE IF Gt(green_score, FromInt(15))
            THEN [status |-> ActiveParticipant, available |-> ActiveParticipantCatalog]
            ELSE IF Gt(green_score, FromInt(5))
            THEN [status |-> DevelopingHabits, available |-> DevelopingHabitsCatalog]
            ELSE [status |-> Newcomer, available |-> NewcomerCatalog]
        affordable == SelectSeq(branch.available, LAMBDA b : eco_points >= b.cost)
        missing == SelectSeq(branch.available,
                             LAMBDA b : eco_points < b.cost /\ b.cost > 0)
        unlocked == [k \in DOMAIN affordable |-> affordable[k].name]
        locked == [k \in DOMAIN missing |->
                      Locked(missing[k].name, missing[k].cost - eco_points)]
    IN  <<branch.status, unlocked, locked>>

get_user_benefits(green_score, eco_points, is_top_user) ==
    LET branch ==
            IF is_top_user \/ Ge(green_score, FromInt(25))
            THEN [status |-> EcoLeader, available |-> EcoLeaderCatalog]
            ELSE IF Ge(green_score, FromInt(15))
            THEN [status |-> ActiveParticipant, available |-> ActiveParticipantCatalog]
            ELSE IF Ge(green_score, FromInt(5))
            THEN [status |-> DevelopingHabits, available |-> DevelopingHabitsCatalog]
            ELSE [status |-> Newcomer, available |-> NewcomerCatalog]
        affordable == SelectSeq(branch.available, LAMBDA b : eco_points >= b.cost)
        missing == SelectSeq(branch.available,
                             LAMBDA b : eco_points < b.cost /\ b.cost > 0)
        unlocked == [k \in DOMAIN affordable |-> affordable[k].name]
        locked == [k \in DOMAIN missing |->
                      Locked(missing[k].name, missing[k].cost - eco_points)]
    IN  <<branch.status, unlocked, locked>>

-----------------------------------------------------------------------------
(* plotting.py: the period tables behind the two trend charts. The values
   "Days", "Weeks" and "Months" of time_period stand for the Russian strings
   of the source; a period is identified by the day it starts on. *)

\* the day of the week of the day z days after 1970-01-01, Monday = 0
weekday(z) == (z + 3) % 7

\* Series.dt.date: the calendar day of a timestamp
dt_date(t) == t.day

\* Series.dt.to_period('W'): the Monday-to-Sunday week holding the timestamp;
\* Series.dt.to_period('M'): its calendar month
to_period(t, freq) ==
    IF freq = "W" THEN t.day - weekday(t.day)
    ELSE t.day - (civil(t.day).day - 1)

\* the 'period' column of one row
period(t, time_period) ==
    IF time_period = "Days" THEN dt_date(t)
    ELSE IF time_period = "Weeks" THEN to_period(t, "W")
    ELSE to_period(t, "M")

\* pd.to_datetime(period) and period.dt.start_time: midnight of the first day
date_for_plot(p) == Timestamp(p, 0)

\* the rows of a table that fall into period p
period_rows(rows, p, time_period) ==
    SelectSeq(rows, LAMBDA r : period(r["date"], time_period) = p)

\* the group keys of a groupby on 'period', ascending
periods(rows, time_period) ==
    SortedSeq({period(rows[i]["date"], time_period) : i \in DOMAIN rows})

\* period_stats of create_line_chart_green_trend. groupby(['period', 'status'])
\* leaves out the rows whose status is missing; total is the sum of the counts
\* of the statuses that are left.
create_line_chart_green_trend(d, time_period) ==
    LET keyed == SelectSeq(d.rows, LAMBDA r : r["status"] # None)
        ps == periods(keyed, time_period)
    IN  [k \in DOMAIN ps |->
            LET x == period_rows(keyed, ps[k], time_period)
            IN  [period |-> ps[k],
                 total |-> Len(x),
                 green_percentage |->
                     Mul(Div(FromInt(green_count(x)), FromInt(Len(x))), FromInt(100)),
                 date_for_plot |-> date_for_plot(ps[k])]]

\* the rolling window of create_user_green_score_trend
RollingWindow == 7

\* an expanding mean: the window never drops its oldest point
rolling_mean_expanding(q, k) ==
    mean(SubSeq(q, 1, k))

\* Series.rolling(window=7, min_periods=1).mean() at position k
rolling_mean(q, k) ==
    mean(SubSeq(q, IF k - (RollingWindow - 1) > 1 THEN k - (RollingWindow - 1) ELSE 1, k))

\* period_stats of create_user_green_score_trend
create_user_green_score_trend(d, user_id, time_period) ==
    LET user_df == user_transactions(d, user_id)
        ps == periods(user_df, time_period)
        x(k) == period_rows(user_df, ps[k], time_period)
        pct == [k \in DOMAIN ps |->
                   Mul(Div(FromInt(green_count(x(k))), FromInt(Len(x(k)))), FromInt(100))]
    IN  [k \in DOMAIN ps |->
            [period |-> ps[k],
             green_percentage |-> pct[k],
             total_amount |-> SumSeq([i \in DOMAIN x(k) |-> FromInt(x(k)[i]["amount"])]),
             rolling_avg |-> rolling_mean(pct, k),
             date_for_plot |-> date_for_plot(ps[k])]]

-----------------------------------------------------------------------------
(* The recommendation engine. app.py imports get_personalized_recommendations
   from analysis and calls it for the selected client; its rules are those of
   the specification's section 4.5. A text is a sequence of one-character
   strings; the messages and keywords stand for the literal texts. *)

NoTransactionsAdvice == "no transactions yet"
CafeAdvice == "take a reusable cup to the cafe"
FuelAdvice == "try public transport or an electric car"
GenericAdvice == "keep choosing green categories"
LowScoreAdvice == "your GreenScore is below 10%"

LowScoreLimit == 10
TopCategories == 3

CafeKeywords == {<<"c", "a", "f", "e">>, <<"c", "o", "f", "f", "e", "e">>}
FuelKeywords == {<<"f", "u", "e", "l">>, <<"a", "u", "t", "o">>}

\* str.lower() of one character
lower_char(c) ==
    CASE c = "A" -> "a" [] c = "B" -> "b" [] c = "C" -> "c" [] c = "E" -> "e"
      [] c = "F" -> "f" [] c = "O" -> "o" [] c = "T" -> "t" [] c = "Z" -> "z"
      [] OTHER -> c

\* str.lower()
str_lower(text) == [i \in DOMAIN text |-> lower_char(text[i])]

\* keyword in text
contains(text, keyword) ==
    \E i \in 1 .. Len(text) - Len(keyword) + 1 :
        SubSeq(text, i, i + Len(keyword) - 1) = keyword

\* case-insensitive substring match against a keyword set
matches_any(text, keywords) == \E kw \in keywords : contains(str_lower(text), kw)

\* the client's not-green spend by category
category_spend(rows) ==
    LET not_green == SelectSeq(rows, LAMBDA r : r["status"] = "not green")
        cats == {not_green[i]["category"] : i \in DOMAIN not_green}
    IN  [c \in cats |->
            LET x == SelectSeq(not_green, LAMBDA r : r["category"] = c)
            IN  SumSeq([i \in DOMAIN x |-> FromInt(x[i]["amount"])])]

\* the top categories by spend, largest first; categories of equal spend in
\* any order. The set of the lists the selection may give.
top_categories(spend, n) ==
    LET cats == DOMAIN spend
        m == IF Cardinality(cats) < n THEN Cardinality(cats) ELSE n
    IN  {q \in [1 .. m -> cats] :
            /\ \A i, j \in 1 .. m : i < j =>
                  q[i] # q[j] /\ ~Lt(spend[q[i]], spend[q[j]])
            /\ \A c \in cats \ {q[i] : i \in 1 .. m} :
                  \A i \in 1 .. m : ~Lt(spend[q[i]], spend[c])}

\* the keyword sets tried in the other order: fuel before cafe
category_advice_fuel_first(text) ==
    IF matches_any(text, FuelKeywords) THEN <<FuelAdvice>>
    ELSE IF matches_any(text, CafeKeywords) THEN <<CafeAdvice>>
    ELSE <<>>

\* the suggestion one category text gives: the cafe keywords are tried before
\* the fuel keywords; no suggestion when neither set matches
category_advice(text) ==
    IF matches_any(text, CafeKeywords) THEN <<CafeAdvice>>
    ELSE IF matches_any(text, FuelKeywords) THEN <<FuelAdvice>>
    ELSE <<>>

\* the scan of the top categories, largest spend first: the first category
\* that gives a suggestion decides the message and the scan stops
RECURSIVE pattern_advice(_)
pattern_advice(q) ==
    IF q = <<>> THEN <<>>
    ELSE IF category_advice(Head(q)) # <<>> THEN category_advice(Head(q))
    ELSE pattern_advice(Tail(q))

\* get_personalized_recommendations(df, user_id): the set of the lists it
\* may return
get_personalized_recommendations(d, user_id) ==
    LET ut == user_transactions(d, user_id)
    IN  IF Len(ut) = 0 THEN {<<NoTransactionsAdvice>>}
        ELSE {(IF pattern_advice(top) = <<>> THEN <<GenericAdvice>>
               ELSE pattern_advice(top))
              \o (IF Lt(get_client_greenscore(d, user_id), FromInt(LowScoreLimit))
                  THEN <<LowScoreAdvice>> ELSE <<>>) :
                 top \in top_categories(category_spend(ut), TopCategories)}

-----------------------------------------------------------------------------
(* Bounded inputs *)

MaxTx == 2          \* rows of a transactions table handed to the classifier
MaxRef == 2         \* rows of a category reference table
MaxRows == 5        \* rows of a classified dataset, one amount
MaxAmountRows == 3  \* rows of a classified dataset, several amounts

Codes == {"5411", "5541"}      \* merchant category codes, as read from the CSV
StatusCells == {"green", "not green", None}
BoolCells == {PyTrue, PyFalse, None}
CodeAliases == {"merchant_category_code", "mcc_code", "mcc", "mcc_cd"}
StatusAliases == {"status", "green_status", "is_green", "color"}

TxCells == [user_id |-> {1}, amount |-> {100}, mcc |-> Codes, status |-> StatusCells,
            date |-> {Timestamp(19387, 9), Timestamp(19389, 8)}]
RefCells == [merchant_category_code |-> Codes,
             mcc_code |-> Codes, mcc |-> Codes, mcc_cd |-> Codes,
             status |-> StatusCells, green_status |-> StatusCells,
             is_green |-> BoolCells, color |-> StatusCells]
ScoreCells == [user_id |-> {1, 2}, amount |-> {100}, status |-> StatusCells]
AmountCells == [user_id |-> {1, 2}, amount |-> {50, 300}, status |-> StatusCells]

Column(c, vals) == {[x \in {c} |-> v] : v \in vals}
Cross(A, B) == {a @@ b : a \in A, b \in B}

\* every row over the columns cols, each cell drawn from cells[column]
RECURSIVE RowsOver(_, _)
RowsOver(cells, cols) ==
    IF cols = {} THEN {<<>>}
    ELSE LET c == CHOOSE x \in cols : TRUE
         IN  Cross(Column(c, cells[c]), RowsOver(cells, cols \ {c}))

\* t is a table over one of the schemas with at most n rows
IsTable(t, cells, schemas, n) ==
    \E s \in schemas : \E k \in 0..n : \E r \in [1..k -> RowsOver(cells, s)] :
        t = DataFrame(s, r)

\* transactions: user_id and amount, with or without the code and the status
TxSchemas == {{"user_id", "amount"} \cup x : x \in SUBSET {"mcc", "status"}}
\* reference tables: at most two of the alias columns
RefSchemas == {{a, b} : a, b \in CodeAliases \cup StatusAliases} \cup {{}}

DatasetSchema == {"user_id", "amount", "status"}
EmptyDataset == DataFrame(DatasetSchema, <<>>)
EmptyReference == DataFrame({"mcc_code", "status"}, <<>>)

Targets == {FromInt(30), FromInt(50)}
Thresholds == {FromInt(50)}

-----------------------------------------------------------------------------
(* The classifier applied to bounded inputs *)

InitClassify ==
    /\ IsTable(transactions_df, TxCells, TxSchemas, MaxTx)
    /\ IsTable(mcc_df, RefCells, RefSchemas, MaxRef)
    /\ mcc_df_renamed = EmptyReference
    /\ df = EmptyDataset
    /\ op = "init"
    /\ args = <<>>
    /\ ret = NoCall
    /\ user_scores = <<>>

\* the date range of the sidebar: Monday 2023-01-30 to Wednesday 2023-02-01
DateRanges == {<<19387, 19389>>}

\* app.py:83-91: the reference table is renamed, the transactions are merged
\* with it and the result is filtered by the date range
Merge ==
    /\ op = "init"
    /\ \E range \in DateRanges :
          LET r == merge_transaction_with_mcc(transactions_df, rename_reference(mcc_df))
          IN  /\ args' = range
              /\ ret' = r.ret
              /\ mcc_df_renamed' = r.mcc_df
              /\ df' = IF r.ret.kind = "ok"
                       THEN filter_data_by_date(r.ret.value, pd_Timestamp(range[1]),
                                                pd_Timestamp(range[2]))
                       ELSE df
    /\ op' = "merge"
    /\ UNCHANGED <<transactions_df, mcc_df, user_scores>>

\* the result is classified again against the same reference table
Reclassify ==
    /\ op = "merge"
    /\ ret.kind = "ok"
    /\ LET r == merge_transaction_with_mcc(ret.value, mcc_df_renamed)
       IN  /\ ret' = r.ret
           /\ mcc_df_renamed' = r.mcc_df
    /\ transactions_df' = ret.value
    /\ op' = "reclassify"
    /\ UNCHANGED <<mcc_df, df, args, user_scores>>

NextClassify == Merge \/ Reclassify

SpecClassify == InitClassify /\ [][NextClassify]_vars

-----------------------------------------------------------------------------
(* Classifier claims, checked under SpecClassify *)

Called == op \in {"merge", "reclassify"}

\* the reference table app.py:88 hands to merge_transaction_with_mcc
Reference == rename_reference(mcc_df)
\* its column labels are unique
UniqueLabels == Reference.duplicated = {}
Joined == op = "merge" /\ "status" \notin transactions_df.columns

\* the first header of the priority list q that is a column of the table, else None
FirstPresent(q, cols) ==
    IF \E k \in DOMAIN q : q[k] \in cols
    THEN q[CHOOSE k \in DOMAIN q : q[k] \in cols /\ \A l \in 1..(k - 1) : q[l] \notin cols]
    ELSE None

CodeHeaders == <<"mcc_code", "mcc", "mcc_cd">>
SpecCodeHeaders == <<"merchant_category_code", "mcc", "mcc_cd">>
StatusHeaders == <<"status", "green_status", "is_green", "color">>

\* the status the reference row j stands for, before missing values are filled
ExpectedStatus(m, j) ==
    LET h == FirstPresent(StatusHeaders, m.columns)
    IN  IF h = None THEN "not green"
        ELSE IF h = "is_green"
             THEN (CASE m.rows[j][h] = PyTrue -> "green"
                     [] m.rows[j][h] = PyFalse -> "not green"
                     [] OTHER -> None)
        ELSE m.rows[j][h]

\* the reference rows whose code equals the given code
MatchIdx(m, code) ==
    {j \in DOMAIN m.rows : m.rows[j][FirstPresent(CodeHeaders, m.columns)] = code}

\* the number of result rows a transaction with that code yields
Copies(m, code) ==
    IF MatchIdx(m, code) = {} THEN 1 ELSE Cardinality(MatchIdx(m, code))

\* the number of result rows before those of transaction i
RECURSIVE Offset(_, _, _)
Offset(t, m, i) ==
    IF i = 1 THEN 0 ELSE Offset(t, m, i - 1) + Copies(m, t.rows[i - 1]["mcc"])

JoinSucceeds ==
    /\ Joined
    /\ UniqueLabels
    /\ "mcc" \in transactions_df.columns
    /\ FirstPresent(CodeHeaders, Reference.columns) # None

\* C1 (as claimed): every row of a returned dataset has the status 'green' or
\* 'not green', whichever branch produced it.
C1_StatusResolved ==
    (Called /\ ret.kind = "ok") =>
        \A i \in DOMAIN ret.value.rows :
            ret.value.rows[i]["status"] \in {"green", "not green"}

\* C2 (as claimed): without a status in the transactions, the result holds every
\* input transaction exactly once and in input order, with the status of a
\* matching reference row, or 'not green' when no reference row matches.
C2_ExactlyOnce ==
    JoinSucceeds =>
        /\ ret.kind = "ok"
        /\ Len(ret.value.rows) = Len(transactions_df.rows)
        /\ \A i \in DOMAIN transactions_df.rows :
            LET row == ret.value.rows[i]
                M == MatchIdx(Reference, transactions_df.rows[i]["mcc"])
            IN  /\ \A c \in transactions_df.columns : row[c] = transactions_df.rows[i][c]
                /\ M # {} => \E j \in M : row["status"] = ExpectedStatus(Reference, j)
                /\ M = {} => row["status"] = "not green"

\* C2 (amended): without a status in the transactions, the result holds the input
\* transactions in input order, each once per matching reference row (in reference
\* order) and once when none matches; a row of a match carries that reference
\* row's status, 'not green' when that status is missing; a transaction without
\* a match carries 'not green' and is never dropped.
C2_LeftJoin ==
    JoinSucceeds =>
        /\ ret.kind = "ok"
        /\ Len(ret.value.rows) =
               Offset(transactions_df, Reference, Len(transactions_df.rows) + 1)
        /\ \A i \in DOMAIN transactions_df.rows :
            LET M == SortedSeq(MatchIdx(Reference, transactions_df.rows[i]["mcc"]))
            IN  \A k \in 1..Copies(Reference, transactions_df.rows[i]["mcc"]) :
                    LET row == ret.value.rows[Offset(transactions_df, Reference, i) + k]
                    IN  /\ \A c \in transactions_df.columns :
                               row[c] = transactions_df.rows[i][c]
                        /\ row["status"] =
                               IF M = <<>> \/ ExpectedStatus(Reference, M[k]) = None
                               THEN "not green"
                               ELSE ExpectedStatus(Reference, M[k])

\* a transaction matched twice next to one matched by no reference row
C2_Witness ==
    /\ JoinSucceeds
    /\ ret.kind = "ok"
    /\ Len(transactions_df.rows) = 2
    /\ Len(ret.value.rows) = 3
    /\ \E k \in DOMAIN ret.value.rows : ret.value.rows[k]["mcc_code"] = None
    /\ \E k \in DOMAIN ret.value.rows : ret.value.rows[k]["status"] = "green"

\* C3: transactions that already carry a status are returned unchanged whatever
\* the reference table is, so classifying a classified result again returns it.
C3_PassThrough ==
    /\ (op = "merge" /\ "status" \in transactions_df.columns) =>
            (ret.kind = "ok" /\ ret.value = transactions_df)
    /\ op = "reclassify" => (ret.kind = "ok" /\ ret.value = transactions_df)

\* a result of the join, classified a second time
C3_Witness ==
    /\ op = "reclassify"
    /\ ret.kind = "ok"
    /\ "mcc_code" \in ret.value.columns
    /\ Len(ret.value.rows) = 2

\* C5: no call changes the caller's reference table, on any path: after the
\* first call it is the table that was handed over, the second call leaves it
\* as it was, and the table as loaded is never touched.
C5_ReferenceUnchanged ==
    [][/\ mcc_df' = mcc_df
       /\ op' = "merge" => mcc_df_renamed' = Reference
       /\ op' = "reclassify" => mcc_df_renamed' = mcc_df_renamed]_vars

\* the fallback path (no status column, code column mcc_cd) has run and
\* returned rows
C5_Witness ==
    /\ Joined
    /\ ret.kind = "ok"
    /\ Reference.columns = {"mcc_cd"}
    /\ mcc_df_renamed = Reference
    /\ Len(Reference.rows) = 2
    /\ Len(ret.value.rows) > 0

-----------------------------------------------------------------------------
(* The scoring functions applied to bounded classified datasets *)

InitScore ==
    /\ \/ IsTable(df, ScoreCells, {DatasetSchema}, MaxRows)
       \/ IsTable(df, AmountCells, {DatasetSchema}, MaxAmountRows)
    /\ transactions_df = EmptyDataset
    /\ mcc_df = EmptyReference
    /\ mcc_df_renamed = EmptyReference
    /\ op = "init"
    /\ args = <<>>
    /\ ret = NoCall
    /\ user_scores = <<>>

\* avg_greenscore = calculate_average_greenscore(df)
AverageGreenscore ==
    /\ op = "init"
    /\ op' = "calculate_average_greenscore"
    /\ args' = <<>>
    /\ ret' = Ok(calculate_average_greenscore(df))
    /\ UNCHANGED <<transactions_df, mcc_df, mcc_df_renamed, df, user_scores>>

\* calculate_active_clients_ratio(df), or with a threshold passed after the dataset
ActiveClientsRatio ==
    /\ op = "init"
    /\ \E extra \in {<<>>} \cup {<<t>> : t \in Thresholds} :
          /\ args' = extra
          /\ ret' = call_with_dataset_only(extra, calculate_active_clients_ratio(df))
    /\ op' = "calculate_active_clients_ratio"
    /\ UNCHANGED <<transactions_df, mcc_df, mcc_df_renamed, df, user_scores>>

\* total_eco_points = calculate_total_eco_points(df)
TotalEcoPoints ==
    /\ op = "init"
    /\ op' = "calculate_total_eco_points"
    /\ args' = <<>>
    /\ ret' = Ok(calculate_total_eco_points(df))
    /\ UNCHANGED <<transactions_df, mcc_df, mcc_df_renamed, df, user_scores>>

\* calculate_target_progress(avg_greenscore) and calculate_target_progress(avg_greenscore, target)
TargetProgress ==
    /\ op = "init"
    /\ \E a \in {<<calculate_average_greenscore(df)>>}
                \cup {<<calculate_average_greenscore(df), t>> : t \in Targets} :
          /\ args' = a
          /\ ret' = Ok(calculate_target_progress(
                            a[1], IF Len(a) >= 2 THEN a[2] ELSE FromInt(TargetDefault)))
    /\ op' = "calculate_target_progress"
    /\ UNCHANGED <<transactions_df, mcc_df, mcc_df_renamed, df, user_scores>>

NextScore == AverageGreenscore \/ ActiveClientsRatio \/ TotalEcoPoints \/ TargetProgress

SpecScore == InitScore /\ [][NextScore]_vars

-----------------------------------------------------------------------------
(* Scoring claims, checked under SpecScore *)

Users(d) == {d.rows[i]["user_id"] : i \in DOMAIN d.rows}
TotalCount(d, u) == Cardinality({i \in DOMAIN d.rows : d.rows[i]["user_id"] = u})
GreenCount(d, u) ==
    Cardinality({i \in DOMAIN d.rows :
                    d.rows[i]["user_id"] = u /\ d.rows[i]["status"] = "green"})

\* the product of the users' transaction counts
RECURSIVE CountProduct(_, _)
CountProduct(d, U) ==
    IF U = {} THEN 1
    ELSE LET u == CHOOSE x \in U : TRUE
         IN  TotalCount(d, u) * CountProduct(d, U \ {u})

\* the sum of the users' green percentages, times CountProduct(d, Users(d))
RECURSIVE ScaledPercentageSum(_, _)
ScaledPercentageSum(d, U) ==
    IF U = {} THEN 0
    ELSE LET u == CHOOSE x \in U : TRUE
         IN  100 * GreenCount(d, u) * (CountProduct(d, Users(d)) \div TotalCount(d, u))
             + ScaledPercentageSum(d, U \ {u})

\* the users whose share of green transactions is at least t percent
ActiveUsers(d, t) ==
    {u \in Users(d) : 100 * GreenCount(d, u) * t.den >= t.num * TotalCount(d, u)}

\* the sum of the amounts of the rows with the given indices
RECURSIVE AmountSum(_, _)
AmountSum(d, I) ==
    IF I = {} THEN 0
    ELSE LET i == CHOOSE x \in I : TRUE
         IN  d.rows[i]["amount"] + AmountSum(d, I \ {i})

GreenRows(d) == {i \in DOMAIN d.rows : d.rows[i]["status"] = "green"}

\* C6: with at least one user, the average GreenScore is the mean over the
\* distinct users of each user's green_count / total_count * 100, every user
\* weighted equally.
C6_MeanOverUsers ==
    (op = "calculate_average_greenscore" /\ Users(df) # {}) =>
        /\ ret.kind = "ok"
        /\ ret.value.den > 0
        /\ ret.value.num * Cardinality(Users(df)) * CountProduct(df, Users(df))
               = ScaledPercentageSum(df, Users(df)) * ret.value.den

\* an average that differs from the share of green rows in the whole dataset
C6_Witness ==
    /\ op = "calculate_average_greenscore"
    /\ Cardinality(Users(df)) = 2
    /\ ret.kind = "ok"
    /\ ret.value.den > 0
    /\ ret.value.num * Len(df.rows)
           # 100 * Cardinality(GreenRows(df)) * ret.value.den

\* C7: on a dataset without users the average GreenScore is NaN, not 0, and the
\* ratio of active clients is 0, not NaN; neither call raises.
C7_EmptyDataset ==
    Users(df) = {} =>
        /\ op = "calculate_average_greenscore" =>
               (ret.kind = "ok" /\ IsNaN(ret.value))
        /\ (op = "calculate_active_clients_ratio" /\ args = <<>>) =>
               ret = Ok(FromInt(0))

\* the average of the empty dataset has been taken
C7_Witness ==
    /\ op = "calculate_average_greenscore"
    /\ df.rows = <<>>
    /\ ret.kind = "ok"
    /\ IsNaN(ret.value)

\* C8 (as claimed): the ratio of active clients is 100 * (users with a green
\* percentage >= threshold) / (users), for the threshold the caller supplies,
\* 20 when none is supplied.
C8_CallerThreshold ==
    op = "calculate_active_clients_ratio" =>
        LET t == IF args = <<>> THEN FromInt(20) ELSE args[1]
        IN  /\ ret.kind = "ok"
            /\ ret.value.den > 0
            /\ ret.value.num * Cardinality(Users(df))
                   = 100 * Cardinality(ActiveUsers(df, t)) * ret.value.den

\* C8 (amended): the ratio of active clients is 100 * (users with a green
\* percentage >= 20) / (users), the comparison inclusive; the threshold is the
\* fixed value 20, and a call that supplies a threshold raises TypeError.
C8_FixedThreshold ==
    op = "calculate_active_clients_ratio" =>
        IF args = <<>>
        THEN /\ ret.kind = "ok"
             /\ ret.value.den > 0
             /\ ret.value.num * Cardinality(Users(df))
                    = 100 * Cardinality(ActiveUsers(df, FromInt(20))) * ret.value.den
        ELSE ret = Raise("TypeError")

\* a single user with exactly one green transaction out of five counts as active
C8_Witness ==
    /\ op = "calculate_active_clients_ratio"
    /\ args = <<>>
    /\ \E u \in Users(df) :
          Users(df) = {u} /\ TotalCount(df, u) = 5 /\ GreenCount(df, u) = 1
    /\ ret = Ok(FromInt(100))

\* C9: the total of eco points is the sum of the amounts of exactly the rows
\* whose status is 'green'; it is 0 when there is none, the empty dataset included.
C9_GreenAmounts ==
    op = "calculate_total_eco_points" =>
        ret = Ok(FromInt(AmountSum(df, GreenRows(df))))

\* green rows are summed next to rows with another and with a missing status
C9_Witness ==
    /\ op = "calculate_total_eco_points"
    /\ \E i, j, k \in DOMAIN df.rows :
          /\ df.rows[i]["status"] = "green"
          /\ df.rows[j]["status"] = "not green"
          /\ df.rows[k]["status"] = None
          /\ df.rows[i]["amount"] # df.rows[j]["amount"]
    /\ ret.kind = "ok"
    /\ ret.value.num > 0
    /\ ret.value.num < AmountSum(df, DOMAIN df.rows)

\* C10: the progress towards the target is min(current / target * 100, 100): it
\* never exceeds 100, it is 100 whenever current >= target > 0, and it is NaN
\* (not 100, not 0) when current is NaN.
C10_TargetProgress ==
    op = "calculate_target_progress" =>
        LET current == args[1]
            target == IF Len(args) >= 2 THEN args[2] ELSE FromInt(20)
        IN  /\ ret.kind = "ok"
            /\ IsNaN(current) => IsNaN(ret.value)
            /\ ~IsNaN(current) =>
                /\ ret.value.den > 0
                /\ ret.value.num <= 100 * ret.value.den
                /\ Ge(current, target) => ret.value = FromInt(100)
                /\ Lt(current, target) =>
                       ret.value.num * target.num * current.den
                           = 100 * current.num * target.den * ret.value.den

\* the average of the empty dataset, NaN, has been passed on
C10_Witness ==
    /\ op = "calculate_target_progress"
    /\ df.rows = <<>>
    /\ IsNaN(args[1])
    /\ ret.kind = "ok"
    /\ IsNaN(ret.value)

-----------------------------------------------------------------------------
(* The per-client functions applied to bounded datasets *)

MaxRankRows == 4        \* rows of a dataset of up to three users, one date
MaxActivityRows == 2    \* rows of a dataset with several dates and amounts
MaxTop == 4             \* the largest n handed to get_top_green_users

\* Sunday 2023-01-29, Monday 2023-01-30 and Wednesday 2023-02-01
ActivityDates == {Timestamp(19386, 10), Timestamp(19387, 0), Timestamp(19389, 8)}

ClientSchema == {"user_id", "amount", "status", "date"}
RankCells == [user_id |-> {1, 2, 3}, amount |-> {100}, status |-> StatusCells,
              date |-> {Timestamp(19387, 0)}]
ActivityCells == [user_id |-> {1, 2}, amount |-> {50, 300},
                  status |-> {"green", "not green"}, date |-> ActivityDates]

\* the ids asked about: 4 is in no dataset
UserIds == {1, 2, 3, 4}

InitClient ==
    /\ \/ IsTable(df, RankCells, {ClientSchema}, MaxRankRows)
       \/ IsTable(df, ActivityCells, {ClientSchema}, MaxActivityRows)
    /\ transactions_df = EmptyDataset
    /\ mcc_df = EmptyReference
    /\ mcc_df_renamed = EmptyReference
    /\ op = "init"
    /\ args = <<>>
    /\ ret = NoCall
    /\ user_scores = <<>>

\* greenscore = get_client_greenscore(df, selected_user)
ClientGreenscore ==
    /\ op = "init"
    /\ \E u \in UserIds :
          /\ args' = <<u>>
          /\ ret' = Ok(get_client_greenscore(df, u))
    /\ op' = "get_client_greenscore"
    /\ UNCHANGED <<transactions_df, mcc_df, mcc_df_renamed, df, user_scores>>

\* ranking = get_client_ranking(df, selected_user)
ClientRanking ==
    /\ op = "init"
    /\ \E u \in UserIds : \E o \in get_client_ranking(df, u) :
          /\ args' = <<u>>
          /\ user_scores' = o.user_scores
          /\ ret' = Ok(o.rank)
    /\ op' = "get_client_ranking"
    /\ UNCHANGED <<transactions_df, mcc_df, mcc_df_renamed, df>>

\* eco_points = get_client_eco_points(df, selected_user)
ClientEcoPoints ==
    /\ op = "init"
    /\ \E u \in UserIds :
          /\ args' = <<u>>
          /\ ret' = Ok(get_client_eco_points(df, u))
    /\ op' = "get_client_eco_points"
    /\ UNCHANGED <<transactions_df, mcc_df, mcc_df_renamed, df, user_scores>>

\* start_date, end_date = get_client_activity_period(df, selected_user)
ClientActivityPeriod ==
    /\ op = "init"
    /\ \E u \in UserIds :
          /\ args' = <<u>>
          /\ ret' = Ok(get_client_activity_period(df, u))
    /\ op' = "get_client_activity_period"
    /\ UNCHANGED <<transactions_df, mcc_df, mcc_df_renamed, df, user_scores>>

\* get_top_green_users(df) with the default n = 5, and get_top_green_users(df, n)
TopGreenUsers ==
    /\ op = "init"
    /\ \E a \in {<<>>} \cup {<<n>> : n \in 0..MaxTop} :
          /\ args' = a
          /\ ret' = get_top_green_users(df, IF Len(a) >= 1 THEN a[1] ELSE 5)
    /\ op' = "get_top_green_users"
    /\ UNCHANGED <<transactions_df, mcc_df, mcc_df_renamed, df, user_scores>>

NextClient ==
    \/ ClientGreenscore
    \/ ClientRanking
    \/ ClientEcoPoints
    \/ TopGreenUsers
    \/ ClientActivityPeriod

SpecClient == InitClient /\ [][NextClient]_vars

-----------------------------------------------------------------------------
(* Per-client claims, checked under SpecClient *)

\* the position of user u in a table of per-user rows, 0 when absent
Position(q, u) ==
    IF \E k \in DOMAIN q : q[k].user_id = u
    THEN CHOOSE k \in DOMAIN q : q[k].user_id = u
    ELSE 0

\* green_percentage(u) > green_percentage(v), on the counts of the dataset
Greener(d, u, v) ==
    GreenCount(d, u) * TotalCount(d, v) > GreenCount(d, v) * TotalCount(d, u)

Tied(d, u, v) ==
    GreenCount(d, u) * TotalCount(d, v) = GreenCount(d, v) * TotalCount(d, u)

\* C11: the ranks of the users of the dataset are their positions in one table
\* that lists every user exactly once, so they are pairwise distinct and are
\* exactly 1..N; a user with a strictly greater green_percentage has the
\* smaller rank; and the call returns the rank of the user it was asked about.
C11_RanksArePositions ==
    op = "get_client_ranking" =>
        /\ Len(user_scores) = Cardinality(Users(df))
        /\ \A u \in Users(df) :
              Cardinality({k \in DOMAIN user_scores : user_scores[k].user_id = u}) = 1
        /\ \A u, v \in Users(df) :
              Greener(df, u, v) => Position(user_scores, u) < Position(user_scores, v)
        /\ ret.kind = "ok"
        /\ args[1] \in Users(df) => ret.value = FromInt(Position(user_scores, args[1]))

\* three users with three different scores, the one asked about in the middle
C11_Witness ==
    /\ op = "get_client_ranking"
    /\ Cardinality(Users(df)) = 3
    /\ \E u, v \in Users(df) : Greener(df, u, args[1]) /\ Greener(df, args[1], v)
    /\ ret = Ok(FromInt(2))

\* C12: users with equal green_percentage are ranked in the order of the
\* per-user aggregation (ascending user_id): for tied u before v, rank(u) < rank(v).
C12_StableTies ==
    op = "get_client_ranking" =>
        \A u, v \in Users(df) :
            (Tied(df, u, v) /\ u < v)
                => Position(user_scores, u) < Position(user_scores, v)

PerUserQueries ==
    {"get_client_greenscore", "get_client_ranking",
     "get_client_eco_points", "get_client_activity_period"}

\* C13: a per-user query about a user with no transaction in the dataset
\* returns without raising: a GreenScore of 0, eco points of 0, the activity
\* period ("N/A", "N/A"), and the rank (number of users) + 1.
C13_UnknownUser ==
    (op \in PerUserQueries /\ args[1] \notin Users(df)) =>
        /\ ret.kind = "ok"
        /\ op = "get_client_greenscore" => ret.value = FromInt(0)
        /\ op = "get_client_eco_points" => ret.value = FromInt(0)
        /\ op = "get_client_activity_period" => ret.value = <<"N/A", "N/A">>
        /\ op = "get_client_ranking" => ret.value = FromInt(Cardinality(Users(df)) + 1)

\* the rank of a user that is not among the three users of the dataset
C13_Witness ==
    /\ op = "get_client_ranking"
    /\ args[1] \notin Users(df)
    /\ Cardinality(Users(df)) = 3
    /\ ret = Ok(FromInt(4))

\* the argument n of the last get_top_green_users call
TopN == IF Len(args) >= 1 THEN args[1] ELSE 5

\* the users of a returned list
Listed(q) == {q[k] : k \in DOMAIN q}

\* the users that have a transaction with no status
MissingStatusUsers(d) ==
    {d.rows[i]["user_id"] : i \in {j \in DOMAIN d.rows : d.rows[j]["status"] = None}}

\* the users ranked ahead of u: greener, or as green with a smaller id, where
\* a transaction with no status counts in the total and not as green
Ahead(d, u) == {v \in Users(d) : Greener(d, v, u) \/ (Tied(d, v, u) /\ v < u)}

\* C14 as stated: a user with a transaction of no status is never in the list
\* returned by get_top_green_users.
C14_MissingStatusExcluded ==
    op = "get_top_green_users" =>
        \A u \in MissingStatusUsers(df) : u \notin Listed(ret.value)

\* C14 amended: get_top_green_users keeps a user with a transaction of no
\* status in the pool and scores it with that transaction counted as not
\* green: the user is in the returned list exactly when fewer than n users
\* are ahead of it on that score.
C14_MissingStatusNotGreen ==
    op = "get_top_green_users" =>
        \A u \in MissingStatusUsers(df) :
            /\ ret.kind = "ok"
            /\ u \in Listed(ret.value) <=> Cardinality(Ahead(df, u)) < TopN

\* a user with a missing status at 50% is listed, ahead of a user at 0% that
\* is cut off
C14_Witness ==
    /\ op = "get_top_green_users"
    /\ \E u \in MissingStatusUsers(df), v \in Users(df) :
          /\ GreenCount(df, u) > 0
          /\ Greener(df, u, v)
          /\ u \in Listed(ret.value)
          /\ v \notin Listed(ret.value)

\* C15 (as claimed): get_top_green_users(dataset, n) returns min(n, number of
\* users) distinct user ids in non-increasing order of green_percentage, and no
\* user outside the list is strictly greener than a user inside it.
C15_TopUsers ==
    op = "get_top_green_users" =>
        /\ ret.kind = "ok"
        /\ Len(ret.value) = IF TopN < Cardinality(Users(df))
                            THEN TopN ELSE Cardinality(Users(df))
        /\ Listed(ret.value) \subseteq Users(df)
        /\ Cardinality(Listed(ret.value)) = Len(ret.value)
        /\ \A i, j \in DOMAIN ret.value :
              i < j => ~Greener(df, ret.value[j], ret.value[i])
        /\ \A u \in Listed(ret.value), v \in Users(df) \ Listed(ret.value) :
              ~Greener(df, v, u)

-----------------------------------------------------------------------------
(* Tiers and benefits applied to bounded scores and eco points *)

\* GreenScores on, between and next to the tier boundaries
Scores ==
    {FromInt(0), FromInt(3), Rat(49, 10), FromInt(5), FromInt(10), Rat(149, 10),
     FromInt(15), FromInt(20), Rat(249, 10), FromInt(25), FromInt(30), FromInt(100)}

\* eco points on and next to the costs of the catalogs
EcoPoints ==
    {-1, 0, 999, 1000, 1999, 2000, 4999, 5000, 9999, 10000,
     49999, 50000, 60000, 99999, 100000, 200000}

InitBenefits ==
    /\ df = EmptyDataset
    /\ transactions_df = EmptyDataset
    /\ mcc_df = EmptyReference
    /\ mcc_df_renamed = EmptyReference
    /\ op = "init"
    /\ args = <<>>
    /\ ret = NoCall
    /\ user_scores = <<>>

\* status = get_client_status(greenscore) and get_client_status(greenscore, is_top_user)
ClientStatus ==
    /\ op = "init"
    /\ \E a \in {<<s>> : s \in Scores} \cup (Scores \X BOOLEAN) :
          /\ args' = a
          /\ ret' = Ok(get_client_status(a[1], IF Len(a) >= 2 THEN a[2] ELSE FALSE))
    /\ op' = "get_client_status"
    /\ UNCHANGED <<transactions_df, mcc_df, mcc_df_renamed, df, user_scores>>

\* get_user_benefits(green_score, eco_points) and
\* get_user_benefits(green_score, eco_points, is_top_user)
UserBenefits ==
    /\ op = "init"
    /\ \E a \in (Scores \X EcoPoints) \cup (Scores \X EcoPoints \X BOOLEAN) :
          /\ args' = a
          /\ ret' = Ok(get_user_benefits(a[1], a[2],
                                         IF Len(a) >= 3 THEN a[3] ELSE FALSE))
    /\ op' = "get_user_benefits"
    /\ UNCHANGED <<transactions_df, mcc_df, mcc_df_renamed, df, user_scores>>

NextBenefits == ClientStatus \/ UserBenefits

SpecBenefits == InitBenefits /\ [][NextBenefits]_vars

-----------------------------------------------------------------------------
(* Tier and benefit claims, checked under SpecBenefits *)

\* score >= n for a score num/den with den > 0
AtLeast(score, n) == score.num >= n * score.den

\* C16: the tier is decided by the first matching rule: Eco-Leader if
\* is_top_user or score >= 25; else Active Participant if score >= 15; else
\* Developing Habits if score >= 5; else Newcomer. The boundaries are
\* inclusive and is_top_user yields Eco-Leader for any score.
C16_TierRules ==
    op = "get_client_status" =>
        LET score == args[1]
            is_top_user == Len(args) >= 2 /\ args[2]
        IN  /\ ret.kind = "ok"
            /\ ret.value = EcoLeader <=> (is_top_user \/ AtLeast(score, 25))
            /\ ret.value = ActiveParticipant <=>
                   (~is_top_user /\ AtLeast(score, 15) /\ ~AtLeast(score, 25))
            /\ ret.value = DevelopingHabits <=>
                   (~is_top_user /\ AtLeast(score, 5) /\ ~AtLeast(score, 15))
            /\ ret.value = Newcomer <=> (~is_top_user /\ ~AtLeast(score, 5))

\* a score exactly on the boundary 15, without the override
C16_Witness ==
    /\ op = "get_client_status"
    /\ args = <<FromInt(15), FALSE>>
    /\ ret = Ok(ActiveParticipant)

\* the catalog of a tier
CatalogOf(status) ==
    CASE status = EcoLeader -> EcoLeaderCatalog
      [] status = ActiveParticipant -> ActiveParticipantCatalog
      [] status = DevelopingHabits -> DevelopingHabitsCatalog
      [] status = Newcomer -> NewcomerCatalog

Entries(catalog) == {catalog[k] : k \in DOMAIN catalog}
Costs(catalog) == [k \in DOMAIN catalog |-> catalog[k].cost]

\* C17: each entry of the tier's catalog is gated on its own: it is unlocked
\* if and only if eco_points >= cost, a zero-cost entry is always unlocked,
\* and every entry with eco_points < cost is in the locked list with the
\* positive deficit cost - eco_points.
C17_Gating ==
    op = "get_user_benefits" =>
        LET eco_points == args[2]
            unlocked == Listed(ret.value[2])
            locked == Listed(ret.value[3])
        IN  \A b \in Entries(CatalogOf(ret.value[1])) :
                /\ b.name \in unlocked <=> eco_points >= b.cost
                /\ b.cost = 0 => b.name \in unlocked
                /\ eco_points < b.cost =>
                      /\ Locked(b.name, b.cost - eco_points) \in locked
                      /\ b.cost - eco_points > 0

\* C18: the unlocked and the locked list partition the tier's catalog: no
\* entry is in both, none is missing, the two lengths add up to the size of
\* the catalog (10, 7, 4, 2), and the costs are those of the table.
C18_Partition ==
    op = "get_user_benefits" =>
        LET catalog == CatalogOf(ret.value[1])
            unlocked == Listed(ret.value[2])
            locked == {l.name : l \in Listed(ret.value[3])}
        IN  /\ unlocked \cap locked = {}
            /\ unlocked \cup locked = {b.name : b \in Entries(catalog)}
            /\ Len(ret.value[2]) + Len(ret.value[3]) = Len(catalog)
            /\ Len(catalog) = CASE ret.value[1] = EcoLeader -> 10
                                [] ret.value[1] = ActiveParticipant -> 7
                                [] ret.value[1] = DevelopingHabits -> 4
                                [] ret.value[1] = Newcomer -> 2
            /\ Costs(EcoLeaderCatalog)
                   = <<10000, 50000, 100000, 5000, 2000, 0, 1000, 0, 0, 0>>
            /\ Costs(ActiveParticipantCatalog) = <<5000, 2000, 0, 1000, 0, 0, 0>>
            /\ Costs(DevelopingHabitsCatalog) = <<1000, 0, 0, 0>>
            /\ Costs(NewcomerCatalog) = <<0, 0>>

\* every entry of the lower catalog is in the higher one, which is longer
Nested(lower, higher) ==
    /\ Entries(lower) \subseteq Entries(higher)
    /\ Len(lower) < Len(higher)

\* C19: the catalogs are nested by tier: every (reward, cost) entry of
\* Newcomer is in Developing Habits, every entry of Developing Habits is in
\* Active Participant, every entry of Active Participant is in Eco-Leader,
\* with the same cost, and each higher catalog has strictly more entries.
C19_NestedCatalogs ==
    /\ Nested(NewcomerCatalog, DevelopingHabitsCatalog)
    /\ Nested(DevelopingHabitsCatalog, ActiveParticipantCatalog)
    /\ Nested(ActiveParticipantCatalog, EcoLeaderCatalog)
    /\ op = "get_user_benefits" =>
          \A status \in {EcoLeader, ActiveParticipant, DevelopingHabits} :
              AtLeast(args[1], CASE status = EcoLeader -> 25
                                 [] status = ActiveParticipant -> 15
                                 [] status = DevelopingHabits -> 5)
                  => Entries(CatalogOf(status)) \subseteq Entries(CatalogOf(ret.value[1]))

\* a Developing Habits user unlocks the bike rental, an entry that the two
\* higher catalogs carry at the same cost and the Newcomer catalog lacks
C19_Witness ==
    /\ op = "get_user_benefits"
    /\ ret.value[1] = DevelopingHabits
    /\ args[2] = 1000
    /\ "month of bike rental" \in Listed(ret.value[2])
    /\ ret.value[3] = <<>>

-----------------------------------------------------------------------------
(* The trend tables applied to bounded datasets *)

MaxPeriodRows == 2      \* rows of a dataset handed to the trend charts

\* Sunday 2023-01-29, Monday 2023-01-30 (morning and afternoon) and
\* Wednesday 2023-02-01: two weeks and two months that do not line up
TrendDates ==
    {Timestamp(19386, 10), Timestamp(19387, 9), Timestamp(19387, 15),
     Timestamp(19389, 8)}

PeriodCells == [user_id |-> {1, 2}, amount |-> {50, 300}, status |-> StatusCells,
                date |-> TrendDates]

TimePeriods == {"Days", "Weeks", "Months"}

InitTrend ==
    /\ IsTable(df, PeriodCells, {ClientSchema}, MaxPeriodRows)
    /\ transactions_df = EmptyDataset
    /\ mcc_df = EmptyReference
    /\ mcc_df_renamed = EmptyReference
    /\ op = "init"
    /\ args = <<>>
    /\ ret = NoCall
    /\ user_scores = <<>>

\* create_line_chart_green_trend(df) with the default time_period (months),
\* and create_line_chart_green_trend(df, time_period=time_period)
LineChartGreenTrend ==
    /\ op = "init"
    /\ \E a \in {<<>>} \cup {<<p>> : p \in TimePeriods} :
          /\ args' = a
          /\ ret' = Ok(create_line_chart_green_trend(
                           df, IF Len(a) >= 1 THEN a[1] ELSE "Months"))
    /\ op' = "create_line_chart_green_trend"
    /\ UNCHANGED <<transactions_df, mcc_df, mcc_df_renamed, df, user_scores>>

\* create_user_green_score_trend(df, user) with the default time_period (days),
\* and create_user_green_score_trend(df, selected_user, time_period=time_period)
UserGreenScoreTrend ==
    /\ op = "init"
    /\ \E a \in {<<u>> : u \in {1, 2, 3}} \cup ({1, 2, 3} \X TimePeriods) :
          /\ args' = a
          /\ ret' = Ok(create_user_green_score_trend(
                           df, a[1], IF Len(a) >= 2 THEN a[2] ELSE "Days"))
    /\ op' = "create_user_green_score_trend"
    /\ UNCHANGED <<transactions_df, mcc_df, mcc_df_renamed, df, user_scores>>

NextTrend == LineChartGreenTrend \/ UserGreenScoreTrend

SpecTrend == InitTrend /\ [][NextTrend]_vars

-----------------------------------------------------------------------------
(* Trend claims, checked under SpecTrend *)

\* the granularity of the last trend call
Granularity ==
    IF op = "create_line_chart_green_trend"
    THEN (IF Len(args) >= 1 THEN args[1] ELSE "Months")
    ELSE (IF Len(args) >= 2 THEN args[2] ELSE "Days")

\* the transactions the last trend call is about: all of them for the fleet,
\* those of the user for the per-user trend
TrendRows ==
    IF op = "create_line_chart_green_trend" THEN DOMAIN df.rows
    ELSE {i \in DOMAIN df.rows : df.rows[i]["user_id"] = args[1]}

\* the transactions whose date truncates to the period p
Bucket(p) == {i \in TrendRows : period(df.rows[i]["date"], Granularity) = p}

\* C20: for each granularity the trend has one entry per bucket that holds a
\* transaction, in ascending order of the period start; each transaction is
\* counted in the bucket its date truncates to; the green_percentage of an
\* entry is 100 * green_count / total_count of the bucket (and total_amount
\* the sum of its amounts), never a division by zero.
C20_Buckets ==
    op \in {"create_line_chart_green_trend", "create_user_green_score_trend"} =>
        LET t == ret.value
        IN  /\ ret.kind = "ok"
            /\ {t[k].period : k \in DOMAIN t}
                   = {period(df.rows[i]["date"], Granularity) : i \in TrendRows}
            /\ \A j, k \in DOMAIN t : j < k => t[j].period < t[k].period
            /\ \A k \in DOMAIN t :
                  /\ t[k].green_percentage.den > 0
                  /\ t[k].green_percentage.num * Cardinality(Bucket(t[k].period))
                         = 100 * Cardinality(Bucket(t[k].period) \cap GreenRows(df))
                               * t[k].green_percentage.den
                  /\ op = "create_line_chart_green_trend" =>
                         t[k].total = Cardinality(Bucket(t[k].period))
                  /\ op = "create_user_green_score_trend" =>
                         t[k].total_amount
                             = FromInt(AmountSum(df, Bucket(t[k].period)))


-----------------------------------------------------------------------------
(* The per-user trend over a longer series, SpecRolling *)

MaxDays == 9            \* calendar days a client's series may span

SeriesStatuses == {"green", "not green"}

\* a dataset of one client with at most one transaction on each day of a set
\* of days, in date order; the days start on Friday 2023-01-27 (day 19384), so
\* that the series crosses a week boundary and a month boundary
IsSeries(t) ==
    \E days \in SUBSET (0 .. MaxDays - 1) :
        LET q == SortedSeq(days)
        IN  \E st \in [DOMAIN q -> SeriesStatuses] :
                t = DataFrame(ClientSchema,
                        [k \in DOMAIN q |->
                            [user_id |-> 1, amount |-> 100, status |-> st[k],
                             date |-> Timestamp(19384 + q[k], 12)]])

InitRolling ==
    /\ IsSeries(df)
    /\ transactions_df = EmptyDataset
    /\ mcc_df = EmptyReference
    /\ mcc_df_renamed = EmptyReference
    /\ op = "init"
    /\ args = <<>>
    /\ ret = NoCall
    /\ user_scores = <<>>

\* create_user_green_score_trend(df, selected_user, time_period=time_period)
\* for a client picked from get_unique_users(df)
SelectedUserTrend ==
    /\ op = "init"
    /\ \E k \in DOMAIN get_unique_users(df), p \in TimePeriods :
          LET selected_user == get_unique_users(df)[k]
          IN  /\ args' = <<selected_user, p>>
              /\ ret' = Ok(create_user_green_score_trend(df, selected_user, p))
    /\ op' = "create_user_green_score_trend"
    /\ UNCHANGED <<transactions_df, mcc_df, mcc_df_renamed, df, user_scores>>

NextRolling == SelectedUserTrend

SpecRolling == InitRolling /\ [][NextRolling]_vars

\* the number of periods averaged at the i-th point
WindowAt(i) == IF i < RollingWindow THEN i ELSE RollingWindow

\* C21: in the per-user trend the rolling average at the i-th period is the
\* mean of the green_percentage of the last min(i, 7) periods ending at i; the
\* first point equals its own green_percentage and no point is undefined.
C21_RollingAverage ==
    op = "create_user_green_score_trend" =>
        LET t == ret.value
        IN  /\ ret.kind = "ok"
            /\ \A i \in DOMAIN t :
                  /\ ~IsNaN(t[i].rolling_avg)
                  /\ Mul(t[i].rolling_avg, FromInt(WindowAt(i)))
                         = SumSeq([j \in 1 .. WindowAt(i) |->
                                      t[i - WindowAt(i) + j].green_percentage])
            /\ t # <<>> => t[1].rolling_avg = t[1].green_percentage

\* a series of at least eight periods whose first point is all green and
\* whose eighth rolling average no longer counts it
C21_Witness ==
    /\ op = "create_user_green_score_trend"
    /\ ret.kind = "ok"
    /\ Len(ret.value) >= 8
    /\ ret.value[1].green_percentage = FromInt(100)
    /\ ret.value[7].rolling_avg # FromInt(0)
    /\ ret.value[8].rolling_avg = FromInt(0)


-----------------------------------------------------------------------------
(* The recommendation engine, SpecRecommend *)

MaxCategories == 6      \* categories a client's transactions may fall into

CategoryTexts ==
    << <<"B", "o", "o", "k", "s">>,
       <<"T", "a", "x", "i">>,
       <<"C", "O", "F", "F", "E", "E">>,
       <<"F", "u", "e", "l">>,
       <<"A", "u", "t", "o", "c", "a", "f", "e">>,
       <<"Z", "o", "o">>,
       <<"T", "e", "a">> >>

\* what a client spends in one category: one transaction or two
CategoryRows ==
    {<<[amount |-> 50, status |-> "not green"]>>,
     <<[amount |-> 300, status |-> "not green"]>>,
     <<[amount |-> 300, status |-> "green"]>>,
     <<[amount |-> 50, status |-> "not green"], [amount |-> 300, status |-> "not green"]>>}

RECURSIVE Concat(_)
Concat(qs) == IF qs = <<>> THEN <<>> ELSE Head(qs) \o Concat(Tail(qs))

RecommendSchema == {"user_id", "amount", "status", "category"}

\* a classified dataset of client 1
IsSpending(t) ==
    \E pick \in [1 .. MaxCategories -> CategoryRows] :
        t = DataFrame(RecommendSchema,
                Concat([c \in 1 .. MaxCategories |->
                    [i \in DOMAIN pick[c] |->
                        [user_id |-> 1, amount |-> pick[c][i].amount,
                         status |-> pick[c][i].status,
                         category |-> CategoryTexts[c]]]]))

InitRecommend ==
    /\ IsSpending(df)
    /\ transactions_df = EmptyDataset
    /\ mcc_df = EmptyReference
    /\ mcc_df_renamed = EmptyReference
    /\ op = "init"
    /\ args = <<>>
    /\ ret = NoCall
    /\ user_scores = <<>>

\* recommendations = get_personalized_recommendations(df, selected_user)
PersonalizedRecommendations ==
    /\ op = "init"
    /\ \E u \in {1, 2} :
          /\ args' = <<u>>
          /\ \E o \in get_personalized_recommendations(df, u) : ret' = Ok(o)
    /\ op' = "get_personalized_recommendations"
    /\ UNCHANGED <<transactions_df, mcc_df, mcc_df_renamed, df, user_scores>>

NextRecommend == PersonalizedRecommendations

SpecRecommend == InitRecommend /\ [][NextRecommend]_vars

\* the rows of the client the last call is about
ClientRows == {i \in DOMAIN df.rows : df.rows[i]["user_id"] = args[1]}

\* the categories of the client's not-green transactions
NotGreenCategories ==
    {df.rows[i]["category"] : i \in {j \in ClientRows : df.rows[j]["status"] = "not green"}}

\* what the client spends on not-green transactions of category c
RECURSIVE SumAmount(_)
SumAmount(S) ==
    IF S = {} THEN 0
    ELSE LET i == CHOOSE x \in S : TRUE
         IN  df.rows[i]["amount"] + SumAmount(S \ {i})

NotGreenSpend(c) ==
    SumAmount({i \in ClientRows : /\ df.rows[i]["status"] = "not green"
                                  /\ df.rows[i]["category"] = c})

\* q lists the top three not-green categories by spend, largest first (all of
\* them when there are fewer); categories of equal spend in any order
IsTopByspend(q) ==
    /\ Len(q) = (IF Cardinality(NotGreenCategories) < 3
                 THEN Cardinality(NotGreenCategories) ELSE 3)
    /\ \A i, j \in DOMAIN q :
          i < j => q[i] # q[j] /\ NotGreenSpend(q[i]) >= NotGreenSpend(q[j])
    /\ \A c \in NotGreenCategories \ {q[i] : i \in DOMAIN q} :
          \A i \in DOMAIN q : NotGreenSpend(q[i]) >= NotGreenSpend(c)

\* message is what the scan of q emits: the suggestion of the first category
\* of q that matches a keyword set, cafe when it matches the cafe keywords
\* (whether or not it matches the fuel keywords too), fuel otherwise; the
\* generic encouragement when no category of q matches
ScanEmits(q, message) ==
    LET hits == {i \in DOMAIN q : matches_any(q[i], CafeKeywords \cup FuelKeywords)}
    IN  IF hits = {} THEN message = GenericAdvice
        ELSE LET first == CHOOSE i \in hits : \A j \in hits : i <= j
             IN  message = IF matches_any(q[first], CafeKeywords)
                           THEN CafeAdvice ELSE FuelAdvice

\* C22: the recommendations are the single fallback string when the client
\* has no transactions; otherwise first exactly one message, the one the scan
\* of the client's top three not-green categories by spend emits (the first
\* category that matches decides and the scan stops, the cafe keywords are
\* checked before the fuel keywords, the generic encouragement when none
\* matches), followed by the low-score nudge if and only if the client's
\* green_percentage is below 10.
C22_Recommendations ==
    op = "get_personalized_recommendations" =>
        LET r == ret.value
            nudge == 100 * Cardinality(ClientRows \cap GreenRows(df))
                         < 10 * Cardinality(ClientRows)
        IN  /\ ret.kind = "ok"
            /\ ClientRows = {} => r = <<NoTransactionsAdvice>>
            /\ ClientRows # {} =>
                  /\ Len(r) = (IF nudge THEN 2 ELSE 1)
                  /\ nudge => r[2] = LowScoreAdvice
                  /\ \E q \in UNION {[1 .. m -> NotGreenCategories] :
                                         m \in 0 .. 3} :
                        IsTopByspend(q) /\ ScanEmits(q, r[1])

\* a client whose largest not-green category matches both keyword sets and
\* gets the cafe suggestion, with a category matching only the fuel keywords
\* behind it and a category matching the cafe keywords outside the top three
C22_Witness ==
    /\ op = "get_personalized_recommendations"
    /\ ret.kind = "ok"
    /\ ret.value[1] = CafeAdvice
    /\ \E q \in [1 .. 3 -> NotGreenCategories] :
          /\ IsTopByspend(q)
          /\ matches_any(q[1], CafeKeywords) /\ matches_any(q[1], FuelKeywords)
          /\ NotGreenSpend(q[1]) > NotGreenSpend(q[2])
          /\ ~matches_any(q[2], CafeKeywords) /\ matches_any(q[2], FuelKeywords)
          /\ \E c \in NotGreenCategories :
                /\ NotGreenSpend(c) < NotGreenSpend(q[3])
                /\ matches_any(c, CafeKeywords)
                /\ ~matches_any(c, FuelKeywords)


-----------------------------------------------------------------------------
(* The classifier on reference tables with several status aliases,
   SpecAliases *)

MaxAliasRef == 1        \* rows of a reference table with several aliases

AliasCells == [mcc_code |-> Codes, mcc |-> {"5411"},
               green_status |-> {"green", "not green"},
               is_green |-> BoolCells, color |-> {"green", "not green"}]

\* reference tables without a status column: any of the three aliases, with
\* or without the code column, or with the code under two headers
AliasSchemas ==
    {x \cup y : x \in SUBSET {"green_status", "is_green", "color"},
                y \in {{}, {"mcc_code"}, {"mcc_code", "mcc"}}}

\* transactions without a status, with or without a date
UnclassifiedSchemas ==
    {{"user_id", "amount"}, {"user_id", "amount", "mcc"},
     {"user_id", "amount", "mcc", "date"}}

InitAliases ==
    /\ IsTable(transactions_df, TxCells, UnclassifiedSchemas, MaxTx)
    /\ IsTable(mcc_df, AliasCells, AliasSchemas, MaxAliasRef)
    /\ mcc_df_renamed = EmptyReference
    /\ df = EmptyDataset
    /\ op = "init"
    /\ args = <<>>
    /\ ret = NoCall
    /\ user_scores = <<>>

SpecAliases == InitAliases /\ [][NextClassify]_vars

AliasHeaders == <<"green_status", "is_green", "color">>

\* the first call, on transactions without a status and a reference table
\* without a status column
AliasCall == Joined /\ "status" \notin Reference.columns

\* every result row carries the status its reference row stands for under
\* the first alias present, 'not green' where there is none
AliasStatuses ==
    /\ Len(ret.value.rows) =
           Offset(transactions_df, Reference, Len(transactions_df.rows) + 1)
    /\ \A i \in DOMAIN transactions_df.rows :
        LET M == SortedSeq(MatchIdx(Reference, transactions_df.rows[i]["mcc"]))
        IN  \A k \in 1..Copies(Reference, transactions_df.rows[i]["mcc"]) :
                LET row == ret.value.rows[Offset(transactions_df, Reference, i) + k]
                    h == FirstPresent(AliasHeaders, Reference.columns)
                    cell == IF M = <<>> \/ h = None THEN None
                            ELSE Reference.rows[M[k]][h]
                IN  row["status"] =
                        IF h = "is_green" /\ cell = PyTrue THEN "green"
                        ELSE IF h = "is_green" \/ cell = None THEN "not green"
                        ELSE cell

\* C23 (as claimed): without a status in the transactions or the reference
\* table, the status comes from the first column present among green_status,
\* is_green (True is 'green', False is 'not green') and color; with none of
\* the four headers every transaction is 'not green' and no error is raised.
C23_StatusAliases ==
    AliasCall =>
        /\ ret.kind = "ok" => AliasStatuses
        /\ FirstPresent(AliasHeaders, Reference.columns) = None =>
               /\ ret.kind = "ok"
               /\ \A k \in DOMAIN ret.value.rows :
                      ret.value.rows[k]["status"] = "not green"

\* C23 (amended): as claimed, except that with none of the four headers the
\* call still raises ValueError when the reference table has no code column
\* or two columns labelled mcc_code, and otherwise KeyError when the
\* transactions have no mcc column; otherwise every transaction is 'not green'.
C23_AliasPriority ==
    AliasCall =>
        /\ ret.kind = "ok" => AliasStatuses
        /\ FirstPresent(AliasHeaders, Reference.columns) = None =>
               /\ ret.kind = "ok" <=> JoinSucceeds
               /\ (FirstPresent(CodeHeaders, Reference.columns) = None
                   \/ ~UniqueLabels)
                      => ret = Raise("ValueError")
               /\ (/\ FirstPresent(CodeHeaders, Reference.columns) # None
                   /\ UniqueLabels
                   /\ "mcc" \notin transactions_df.columns)
                      => ret = Raise("KeyError")
               /\ ret.kind = "ok" =>
                      /\ Len(ret.value.rows) >= Len(transactions_df.rows)
                      /\ \A k \in DOMAIN ret.value.rows :
                             ret.value.rows[k]["status"] = "not green"

\* a reference row with is_green False and color 'green' matched by a
\* transaction, which is_green decides
C23_Witness ==
    /\ AliasCall
    /\ ret.kind = "ok"
    /\ {"is_green", "color"} \subseteq Reference.columns
    /\ "green_status" \notin Reference.columns
    /\ \E j \in DOMAIN Reference.rows :
          /\ Reference.rows[j]["is_green"] = PyFalse
          /\ Reference.rows[j]["color"] = "green"
          /\ \E k \in DOMAIN ret.value.rows :
                /\ ret.value.rows[k]["mcc_code"] = Reference.rows[j]["mcc_code"]
                /\ ret.value.rows[k]["status"] = "not green"


-----------------------------------------------------------------------------
(* The classifier called on reference tables as they are loaded, with codes
   that are integers or strings, SpecCodeColumn *)

MaxKeyTx == 1       \* rows of the transactions
MaxKeyRef == 1      \* rows of the reference table

\* the code cells of the CSV files: an integer, and a text that is none,
\* which makes its column a column of strings
KeyCells == {"5411", "54A1"}

KeyTxCells == [user_id |-> {1}, amount |-> {100}, mcc |-> KeyCells]
KeyRefCells ==
    [merchant_category_code |-> KeyCells, mcc_code |-> KeyCells,
     mcc |-> KeyCells, mcc_cd |-> KeyCells,
     status |-> {"green", "not green"}]

\* transactions without a status, with or without a code
KeyTxSchemas == {{"user_id", "amount"}, {"user_id", "amount", "mcc"}}

\* reference tables with at most two of the code headers, with or without a status
KeyRefSchemas ==
    {x \cup y : x \in {z \in SUBSET CodeAliases : Cardinality(z) <= 2},
                y \in {{}, {"status"}}}

InitCodeColumn ==
    /\ IsTable(transactions_df, KeyTxCells, KeyTxSchemas, MaxKeyTx)
    /\ IsTable(mcc_df, KeyRefCells, KeyRefSchemas, MaxKeyRef)
    /\ mcc_df_renamed = EmptyReference
    /\ df = EmptyDataset
    /\ op = "init"
    /\ args = <<>>
    /\ ret = NoCall
    /\ user_scores = <<>>

\* merge_transaction_with_mcc(transactions_df, mcc_df), called with the
\* reference table as loaded
MergeTransactionWithMcc ==
    /\ op = "init"
    /\ LET r == merge_transaction_with_mcc(transactions_df, mcc_df)
       IN  /\ ret' = r.ret
           /\ mcc_df_renamed' = r.mcc_df
    /\ op' = "merge_transaction_with_mcc"
    /\ UNCHANGED <<transactions_df, mcc_df, df, args, user_scores>>

NextCodeColumn == MergeTransactionWithMcc \/ Merge

SpecCodeColumn == InitCodeColumn /\ [][NextCodeColumn]_vars

\* the reference table the call was given: the loaded one, or the one
\* app.py:85 made of it
Passed == IF op = "merge" THEN Reference ELSE mcc_df

\* a call on transactions without a status
Unclassified ==
    /\ op \in {"merge", "merge_transaction_with_mcc"}
    /\ "status" \notin transactions_df.columns

\* every cell of the column is an integer
AllIntegers(t, col) == \A i \in DOMAIN t.rows : t.rows[i][col] \in {"5411", "5541"}

\* both tables have rows, and one holds its codes (in column h of the
\* reference table) as integers, the other as strings
MixedKeys(h) ==
    /\ transactions_df.rows # <<>>
    /\ Passed.rows # <<>>
    /\ AllIntegers(transactions_df, "mcc") # AllIntegers(Passed, h)

\* C4 (as claimed): the code column is resolved under merchant_category_code, mcc
\* and mcc_cd, and the call fails exactly when the reference table has none of them.
C4_SpecAliases ==
    Unclassified =>
        (ret.kind = "raise"
            <=> FirstPresent(SpecCodeHeaders, Passed.columns) = None)

\* what the call must end in: an error, or "ok"
C4_Outcome ==
    LET h == FirstPresent(CodeHeaders, Passed.columns)
    IN  IF h = None \/ "mcc_code" \in Passed.duplicated THEN "ValueError"
        ELSE IF "mcc" \notin transactions_df.columns THEN "KeyError"
        ELSE IF MixedKeys(h) THEN "ValueError"
        ELSE "ok"

\* C4 (amended): the code column is resolved under mcc_code, mcc and mcc_cd, in
\* that order (a column named merchant_category_code is not recognised). The
\* call raises ValueError, returning nothing, when the reference table has
\* none of the three or has two columns labelled mcc_code; otherwise KeyError
\* when the transactions have no mcc column; otherwise ValueError when both
\* tables have rows and one holds its codes as integers and the other as
\* strings; otherwise it joins on the first of the three that is present.
C4_CodeAliases ==
    Unclassified =>
        /\ C4_Outcome # "ok" => ret = Raise(C4_Outcome)
        /\ C4_Outcome = "ok" =>
               /\ ret.kind = "ok"
               /\ Len(ret.value.rows) >= Len(transactions_df.rows)
               /\ \A k \in DOMAIN ret.value.rows :
                      LET row == ret.value.rows[k]
                      IN  IF MatchIdx(Passed, row["mcc"]) = {}
                          THEN row["mcc_code"] = None
                          ELSE row["mcc_code"] = row["mcc"]

\* a reference table with the code under mcc and another code under mcc_cd,
\* called directly: the transaction is joined on mcc
C4_Witness ==
    /\ op = "merge_transaction_with_mcc"
    /\ "status" \notin transactions_df.columns
    /\ ret.kind = "ok"
    /\ mcc_df.columns \cap CodeAliases = {"mcc", "mcc_cd"}
    /\ Len(mcc_df.rows) = 1 /\ Len(ret.value.rows) = 1
    /\ mcc_df.rows[1]["mcc"] # mcc_df.rows[1]["mcc_cd"]
    /\ mcc_df.rows[1]["mcc"] \in IntegerTexts
    /\ ret.value.rows[1]["mcc_code"] = mcc_df.rows[1]["mcc"]

-----------------------------------------------------------------------------
(* The two tier chains compared, checked under SpecBenefits *)

\* the is_top_user argument of the last get_user_benefits call
BenefitsTopUser == IF Len(args) >= 3 THEN args[3] ELSE FALSE

\* C24: for every score, eco_points and is_top_user the tier returned by
\* get_user_benefits is the one get_client_status returns for the score and
\* the flag; it does not depend on eco_points.
C24_TiersAgree ==
    op = "get_user_benefits" =>
        /\ ret.kind = "ok"
        /\ ret.value[1] = get_client_status(args[1], BenefitsTopUser)

\* a score on the Active Participant threshold, and a top user below every
\* threshold, both with eco points that unlock nothing paid
C24_Witness ==
    /\ op = "get_user_benefits"
    /\ args[2] = 0
    /\ \/ args[1] = FromInt(15) /\ ~BenefitsTopUser
          /\ ret.value[1] = ActiveParticipant
       \/ args[1] = FromInt(3) /\ BenefitsTopUser
          /\ ret.value[1] = EcoLeader


-----------------------------------------------------------------------------
(* The client profile of display_client_analysis, SpecProfile *)

MaxProfileUsers == 6    \* users of a dataset shown in the client profile

TopUsersShown == 5      \* app.py:240

\* a dataset of the users 1..k with one transaction each
IsProfiles(t) ==
    \E k \in 0 .. MaxProfileUsers : \E st \in [1 .. k -> {"green", "not green"}] :
        t = DataFrame(ClientSchema,
                [u \in 1 .. k |->
                    [user_id |-> u, amount |-> 100, status |-> st[u],
                     date |-> Timestamp(19387, 0)]])

InitProfile ==
    /\ IsProfiles(df)
    /\ transactions_df = EmptyDataset
    /\ mcc_df = EmptyReference
    /\ mcc_df_renamed = EmptyReference
    /\ op = "init"
    /\ args = <<>>
    /\ ret = NoCall
    /\ user_scores = <<>>

\* the profile of the selected client: GreenScore, rank, eco points, activity
\* period, the top-5 list, the is_top_user flag and the tier
ClientProfile ==
    /\ op = "init"
    /\ \E k \in DOMAIN get_unique_users(df) :
       \E top_users \in {get_top_green_users(df, TopUsersShown).value} :
          LET selected_user == get_unique_users(df)[k]
              greenscore == get_client_greenscore(df, selected_user)
              is_top_user == \E i \in DOMAIN top_users : top_users[i] = selected_user
          IN  \E o \in get_client_ranking(df, selected_user) :
                 /\ args' = <<selected_user>>
                 /\ user_scores' = o.user_scores
                 /\ ret' = Ok([greenscore |-> greenscore,
                               ranking |-> o.rank,
                               eco_points |-> get_client_eco_points(df, selected_user),
                               activity_period |->
                                   get_client_activity_period(df, selected_user),
                               top_users |-> top_users,
                               is_top_user |-> is_top_user,
                               status |-> get_client_status(greenscore, is_top_user)])
    /\ op' = "display_client_analysis"
    /\ UNCHANGED <<transactions_df, mcc_df, mcc_df_renamed, df>>

NextProfile == ClientProfile

SpecProfile == InitProfile /\ [][NextProfile]_vars

\* C25: get_top_green_users and get_client_ranking agree, ties included: a
\* user of the dataset is in the top-5 list if and only if its rank is at
\* most 5, the k-th element of the list is the user of rank k, and the
\* is_top_user flag of the selected client is true exactly for the ranks 1..5.
C25_TopMatchesRanking ==
    op = "display_client_analysis" =>
        LET top_users == ret.value.top_users
        IN  /\ \A u \in Users(df) :
                  u \in Listed(top_users)
                      <=> Position(user_scores, u) <= TopUsersShown
            /\ \A k \in DOMAIN top_users : user_scores[k].user_id = top_users[k]
            /\ ret.value.is_top_user
                   <=> ~Lt(FromInt(TopUsersShown), ret.value.ranking)


-----------------------------------------------------------------------------
(* The fleet total of eco points against the clients' eco points,
   SpecEcoPoints *)

\* calculate_total_eco_points(df), get_unique_users(df) and
\* get_client_eco_points(df, u) for each listed user u, on one dataset
EcoPointsByUser ==
    /\ op = "init"
    /\ \E unique_users \in {get_unique_users(df)} :
          ret' = Ok([total_eco_points |-> calculate_total_eco_points(df),
                     unique_users |-> unique_users,
                     client_eco_points |->
                         [k \in DOMAIN unique_users |->
                             get_client_eco_points(df, unique_users[k])]])
    /\ op' = "eco_points_by_user"
    /\ args' = <<>>
    /\ UNCHANGED <<transactions_df, mcc_df, mcc_df_renamed, df, user_scores>>

NextEcoPoints == EcoPointsByUser

SpecEcoPoints == InitScore /\ [][NextEcoPoints]_vars

\* C26: calculate_total_eco_points(dataset) is the sum of
\* get_client_eco_points(dataset, u) over the users u that get_unique_users
\* returns, and that list holds every distinct user_id of the dataset exactly
\* once, in ascending order.
C26_TotalIsSumOverUsers ==
    op = "eco_points_by_user" =>
        LET r == ret.value
        IN  /\ ret.kind = "ok"
            /\ {r.unique_users[k] : k \in DOMAIN r.unique_users} = Users(df)
            /\ \A j, k \in DOMAIN r.unique_users :
                  j < k => r.unique_users[j] < r.unique_users[k]
            /\ DOMAIN r.client_eco_points = DOMAIN r.unique_users
            /\ r.total_eco_points = SumSeq(r.client_eco_points)

\* two clients with green amounts of their own, the rows not in the order of
\* the ids, next to a transaction that is not green
C26_Witness ==
    /\ op = "eco_points_by_user"
    /\ ret.kind = "ok"
    /\ ret.value.unique_users = <<1, 2>>
    /\ df.rows[1]["user_id"] = 2
    /\ ret.value.client_eco_points = <<FromInt(300), FromInt(50)>>
    /\ ret.value.total_eco_points = FromInt(350)
    /\ \E i \in DOMAIN df.rows : df.rows[i]["status"] # "green"

=============================================================================
